---- MODULE Spec2Model ----
(***************************************************************************)
(* A model of the ViralCut AI video editor: the upload and status route    *)
(* handlers, the upload form and the progress view of the page, the        *)
(* in-memory queue with its job statuses and processQueue loops, the video *)
(* processor, the transcript post-processing and the external-API wrappers *)
(* of the AI analyzer, and the FFmpeg command builders.                    *)
(*                                                                         *)
(* Each component has its own specification (SpecUpload, SpecStatus, ...); *)
(* a specification leaves the variables of the other components at their   *)
(* initial values.                                                         *)
(***************************************************************************)
EXTENDS Integers, Sequences, FiniteSets, TLC

VARIABLES
    uploadReq,      \* the last request handed to the upload handler
    uploadResp,     \* the response the upload handler returned for it
    form,           \* the upload form: its state, its call and its timers
    statusReq,      \* the last status poll: video id and random draw
    statusResp,     \* the response of the last status poll
    prevStatusReq,  \* the status poll before the last one
    prevStatusResp, \* and its response
    view,           \* page.tsx: the mounted ProcessingStatus view
    inMemoryQueues, \* queue.ts: the jobs of each lane, head first
    submitted,      \* the jobs callers have enqueued so far, by id
    lastOp,         \* the last queue operation a caller made, and its result
    loops,          \* the processQueue loops: lane, maxRetries, position, job
    attempts,       \* per job id: how often a loop handed it to the processor
    threw,          \* per job id: how many of these processor calls threw
    words,          \* ai-analyzer.ts: transcription.words
    viralKeywords,  \* the viralKeywords argument of generateCaptions
    computed,       \* which of captions, scenes, silences have been computed
    captions,       \* the result of generateCaptions
    scenes,         \* the result of detectScenes
    silences,       \* the result of detectSilences
    captionArgs,    \* ffmpeg-commands.ts: the arguments of generateCaptionFilter
    captionFilter,  \* the filter it returned (<<>> before the call)
    thumbnailArgs,  \* the arguments of generateViralThumbnail
    thumbnailCommand, \* the command it returned (<<>> before the call)
    jobStatuses,    \* queue.ts: the status record stored for each job id
    statusLog,      \* per job id: the records setJobStatus was given, in order
    lastGet,        \* the last getJobStatus call and what it returned
    statsCall,      \* the getQueueStats call: position and the sizes read
    processingJobs, \* video processor: the processing job of each job id
    videos,         \* video processor: the video record of each video id
    queueCalls,     \* the queueVideoProcessing calls: position, video, lane
    runs,           \* the processVideo calls: position, job, outcome
    apiCall,        \* ai-analyzer.ts: the last wrapper call and the API's behaviour
    apiResult,      \* what the wrapper returned or threw
    pipelineArgs,   \* the arguments of generateCompleteEditingPipeline
    pipelineCommands \* the commands it returned (<<>> before the call)

uploadVars == <<uploadReq, uploadResp, form>>
statusVars == <<statusReq, statusResp, prevStatusReq, prevStatusResp, view>>
jobStatusVars == <<jobStatuses, statusLog, lastGet>>
queueVars == <<inMemoryQueues, submitted, lastOp, loops, attempts, threw, jobStatusVars,
              statsCall>>
apiVars == <<apiCall, apiResult>>
wordVars == <<words, viralKeywords, computed, captions, scenes, silences, apiVars>>
pipelineVars == <<pipelineArgs, pipelineCommands>>
ffmpegVars == <<captionArgs, captionFilter, thumbnailArgs, thumbnailCommand, pipelineVars>>
processorVars == <<processingJobs, videos, runs, queueCalls>>
vars == <<uploadVars, statusVars, queueVars, wordVars, ffmpegVars, processorVars>>

\* JavaScript's null / undefined
NULL == "null"
UNDEFINED == "undefined"

Min(a, b) == IF a <= b THEN a ELSE b
Max(a, b) == IF a >= b THEN a ELSE b

(***************************************************************************)
(* Upload route handler (POST)                                             *)
(***************************************************************************)

\* const maxSize = 500 * 1024 * 1024
maxSize == 500 * 1024 * 1024

validTypes == {"video/mp4", "video/quicktime", "video/x-msvideo"}

\* The MIME types of the files sent to the handler, and type.split('/')[1]
\* of each ("" has no '/', so [1] is undefined).
FileTypes == validTypes \cup {"video/webm", "image/png", ""}

TypeSubtype(t) ==
    CASE t = "video/mp4" -> "mp4"
      [] t = "video/quicktime" -> "quicktime"
      [] t = "video/x-msvideo" -> "x-msvideo"
      [] t = "video/webm" -> "webm"
      [] t = "image/png" -> "png"
      [] OTHER -> UNDEFINED

FileSizes == {0, 1, maxSize - 1, maxSize, maxSize + 1, 2 * maxSize}

\* File names, as sequences of characters.
FileNames == { <<"a", ".", "m", "p", "4">>, <<"a">>, <<"a", ".", "b", ".", "c">>,
               <<".", "x">>, <<"a", ".">>, <<"d", "/", "a", ".", "b">> }

\* name.replace(/\.[^/.]+$/, ''): drop a final '.' followed by one or more
\* characters that are neither '/' nor '.'.
StripExtension(name) ==
    LET dots == { i \in 1..Len(name) :
                    /\ name[i] = "."
                    /\ i < Len(name)
                    /\ \A j \in (i + 1)..Len(name) : name[j] \notin {"/", "."} }
    IN  IF dots = {} THEN name
        ELSE SubSeq(name, 1, (CHOOSE i \in dots : TRUE) - 1)

\* The values of the 'colors' form field: absent (null) or a string.
ColorsFields == { NULL, "", "{}", "{\"primary\":\"#FF6B6B\"}", "null", "[]",
                  "{", "red", "{primary:1}" }

\* JSON.parse on these strings: which of them are JSON texts, and the value.
JSONParseThrows(s) == s \in {"", "{", "red", "{primary:1}"}

JSONParse(s) ==
    CASE s = "{}" -> [kind |-> "object", fields |-> {}]
      [] s = "{\"primary\":\"#FF6B6B\"}" ->
             [kind |-> "object", fields |-> {<<"primary", "#FF6B6B">>}]
      [] s = "{\"virality_score\":0.9,\"suggested_title\":\"Uau\"}" ->
             [kind |-> "object",
              fields |-> {<<"virality_score", "0.9">>, <<"suggested_title", "Uau">>}]
      [] s = "null" -> [kind |-> "null", fields |-> {}]
      [] s = "[]" -> [kind |-> "array", fields |-> {}]

\* Truthy testing for null only, as in (colors ?? '{}').
TruthyNullish(v) == v # NULL

\* JavaScript truthiness of a form field (null and '' are falsy).
Truthy(v) == v \notin {NULL, ""}

StyleFields == {NULL, "modern", "energetic"}
PaceFields == {NULL, "fast"}

\* formData.get('video'): null when the field is absent, a string when it was
\* sent as a text field, a File otherwise.
VideoFields ==
    {[kind |-> "absent"]}
      \cup { [kind |-> "text", value |-> v] : v \in {"", "hello"} }
      \cup [kind : {"file"}, size : FileSizes, type : FileTypes, name : FileNames]

\* A request: bodyOk is FALSE when request.formData() rejects (the body is
\* not a form).
UploadRequests ==
    [bodyOk : {TRUE}, video : VideoFields, style : StyleFields,
     pace : PaceFields, colors : ColorsFields]
      \cup {[bodyOk |-> FALSE]}

\* Date.now() / Math.random() of the synthesized identifier.
VideoIdSuffixes == {"1_aaa", "2_bbb"}

VideoFalsy(v) == v.kind = "absent" \/ (v.kind = "text" /\ v.value = "")

\* SizeTooLarge with the comparison off by one (>= for >).
SizeTooLargeInclusive(v) == v.kind = "file" /\ v.size >= maxSize

\* videoFile.size > maxSize: a text field has no size (undefined > n is false)
SizeTooLarge(v) == v.kind = "file" /\ v.size > maxSize

\* validTypes.includes(videoFile.type): a text field has no type
TypeValid(v) == v.kind = "file" /\ v.type \in validTypes

JsonResponse(status, body) == [status |-> status, body |-> body]

mockVideo(req, suffix) ==
    [ id |-> "video_" \o suffix,
      user_id |-> "demo_user",
      title |-> StripExtension(req.video.name),
      original_url |-> "",
      processed_url |-> "",
      thumbnail_url |-> "",
      status |-> "processing",
      duration |-> 0,
      format |-> TypeSubtype(req.video.type),
      aspect_ratio |-> "16:9",
      style_config |-> [ style |-> req.style,
                         pace |-> req.pace,
                         colors |-> JSONParse(IF Truthy(req.colors)
                                              THEN req.colors ELSE "{}") ] ]

\* The handler: the response to a request (suffix is the identifier drawn).
\* The two 500 bodies carry error.message of what was thrown: by
\* request.formData(), or by JSON.parse inside the record literal.
POSTResponse(req, suffix) ==
    IF ~req.bodyOk
      THEN JsonResponse(500, [error |-> "formData failed"])
    ELSE IF VideoFalsy(req.video)
      THEN JsonResponse(400, [error |-> "Nenhum arquivo de video fornecido"])
    ELSE IF SizeTooLarge(req.video)
      THEN JsonResponse(400, [error |-> "Arquivo muito grande. Maximo: 500MB"])
    ELSE IF ~TypeValid(req.video)
      THEN JsonResponse(400, [error |-> "Formato invalido. Use MP4 ou MOV"])
    ELSE IF Truthy(req.colors) /\ JSONParseThrows(req.colors)
      THEN JsonResponse(500, [error |-> "Unexpected token in JSON"])
    ELSE JsonResponse(200,
            [ success |-> TRUE,
              video |-> mockVideo(req, suffix),
              message |-> "Video enviado com sucesso! Iniciando processamento..." ])

NoRequest == [bodyOk |-> FALSE, none |-> TRUE]
NoResponse == [status |-> 0, body |-> [none |-> TRUE]]

\* One call of the handler, from the request to the returned response.
POST(req, suffix) ==
    /\ uploadReq = NoRequest
    /\ uploadReq' = req
    /\ uploadResp' = POSTResponse(req, suffix)
    /\ UNCHANGED <<form, statusVars, queueVars, wordVars, ffmpegVars, processorVars>>

\* The response has been sent; the route is ready for the next request.
UploadSent ==
    /\ uploadReq # NoRequest
    /\ uploadReq' = NoRequest
    /\ uploadResp' = NoResponse
    /\ UNCHANGED <<form, statusVars, queueVars, wordVars, ffmpegVars, processorVars>>

(***************************************************************************)
(* Upload form (uploadVideo of the UploadZone component)                   *)
(*                                                                         *)
(* A call advances from one await to the next: the fetch, then the read of *)
(* the response body.  The progress timer of a call fires every 200 ms for *)
(* as long as it is set.                                                   *)
(***************************************************************************)

\* uploadVideo calls followed.
MaxUploads == 2

\* The files given to the form: by what the two checks of uploadVideo read.
FormFiles ==
    [ size : {maxSize, maxSize + 1},
      type : {"video/mp4", "video/quicktime", "video/x-msvideo", "video/webm"} ]

\* The statuses the upload route answers with.
UploadStatuses == {200, 400, 500}

\* useState(false), useState(0); no call yet and no timer.
InitForm ==
    [ isUploading |-> FALSE, uploadProgress |-> 0, pc |-> "idle", ok |-> FALSE,
      timer |-> FALSE, oldTimers |-> 0, calls |-> 0, toast |-> "", outcome |-> "" ]

\* The catch or success path has run and then the finally block:
\* setIsUploading(false); setUploadProgress(0).
settle(f, toast, outcome) ==
    [f EXCEPT !.isUploading = FALSE, !.uploadProgress = 0, !.pc = "settled",
              !.toast = toast, !.outcome = outcome]

\* uploadVideo(file) is called.  A file that fails a check gets a toast and
\* the call returns; otherwise the progress timer is set and the fetch
\* issued.
UploadVideo(file) ==
    /\ form.pc \in {"idle", "settled"}
    /\ form.calls < MaxUploads
    /\ form' =
          IF file.size > maxSize
          THEN [form EXCEPT !.calls = @ + 1, !.pc = "settled", !.outcome = "refused",
                            !.toast = "Arquivo muito grande. Maximo: 500MB",
                            !.oldTimers = @ + (IF form.timer THEN 1 ELSE 0),
                            !.timer = FALSE]
          ELSE IF file.type \notin validTypes
          THEN [form EXCEPT !.calls = @ + 1, !.pc = "settled", !.outcome = "refused",
                            !.toast = "Formato invalido. Use MP4 ou MOV",
                            !.oldTimers = @ + (IF form.timer THEN 1 ELSE 0),
                            !.timer = FALSE]
          ELSE [form EXCEPT !.calls = @ + 1, !.pc = "fetching", !.outcome = "",
                            !.isUploading = TRUE, !.uploadProgress = 0,
                            !.oldTimers = @ + (IF form.timer THEN 1 ELSE 0),
                            !.timer = TRUE]
    /\ UNCHANGED <<uploadReq, uploadResp,
                   statusVars, queueVars, wordVars, ffmpegVars, processorVars>>

\* A progress timer that is set fires:
\* setUploadProgress((prev) => Math.min(prev + 10, 90))
ProgressTick ==
    /\ form.timer \/ form.oldTimers > 0
    /\ form' = [form EXCEPT !.uploadProgress = Min(@ + 10, 90)]
    /\ UNCHANGED <<uploadReq, uploadResp,
                   statusVars, queueVars, wordVars, ffmpegVars, processorVars>>

\* The fetch resolves with a response: clearInterval(progressInterval),
\* setUploadProgress(100), and the body is read.
FetchResponds(status) ==
    /\ form.pc = "fetching"
    /\ form' = [form EXCEPT !.timer = FALSE, !.uploadProgress = 100,
                            !.pc = "reading", !.ok = (status = 200)]
    /\ UNCHANGED <<uploadReq, uploadResp,
                   statusVars, queueVars, wordVars, ffmpegVars, processorVars>>

\* The body has been read: for an ok response the success toast and
\* onVideoUploaded, otherwise the error is thrown and caught; then the
\* finally block.
BodyRead ==
    /\ form.pc = "reading"
    /\ form' = IF form.ok
               THEN settle(form, "Video enviado com sucesso!", "uploaded")
               ELSE settle(form, "Falha no upload", "failed")
    /\ UNCHANGED <<uploadReq, uploadResp,
                   statusVars, queueVars, wordVars, ffmpegVars, processorVars>>

\* The fetch rejects (no response): the statements after it in the try
\* block are skipped, clearInterval among them; catch, then finally.
FetchFails ==
    /\ form.pc = "fetching"
    /\ form' = settle(form, "Erro ao enviar video", "rejected")
    /\ UNCHANGED <<uploadReq, uploadResp,
                   statusVars, queueVars, wordVars, ffmpegVars, processorVars>>

(***************************************************************************)
(* Status route handler (GET)                                              *)
(***************************************************************************)

\* params.videoId of the polls ('' is the missing id).
VideoIds == {"", "v1"}

\* Math.floor(Math.random() * 100): Math.random() is in [0, 1).
RandomDraws == 0..99

\* mockProgress without the + 1.
mockProgressNoOffset(draw) == Min(100, draw)

\* Math.min(100, Math.floor(Math.random() * 100) + 1)
mockProgress(draw) == Min(100, draw + 1)

steps == << "Validating video", "Extracting audio", "Analyzing with AI",
            "Generating visual effects", "Rendering video",
            "Generating thumbnail", "Finalizing" >>

\* Math.floor((mockProgress / 100) * steps.length)
currentStepIndex(progress) == (progress * Len(steps)) \div 100

\* steps[Math.min(currentStepIndex, steps.length - 1)], steps being 0-based
currentStep(progress) ==
    steps[Min(currentStepIndex(progress), Len(steps) - 1) + 1]

\* Math.round(x) for x = n / 10, n >= 0: halves round up.
RoundTenths(n) == (n + 5) \div 10

\* Math.max(0, Math.round((100 - mockProgress) * 1.2))
timeRemaining(progress) == Max(0, RoundTenths((100 - progress) * 12))

\* The canned record of the completed payload, without its constant
\* ai_analysis and style_config objects and its timestamps (the clock's).
completedVideo(videoId) ==
    [ id |-> videoId,
      user_id |-> "demo_user",
      title |-> "Video Processado",
      original_url |-> "",
      processed_url |-> "https://commondatastorage.googleapis.com/gtv-videos-bucket/sample/BigBuckBunny.mp4",
      thumbnail_url |-> "https://images.unsplash.com/photo-1574717024653-61fd2cf4d44d?w=400&h=300&fit=crop",
      status |-> "completed",
      duration |-> 120,
      format |-> "mp4",
      aspect_ratio |-> "16:9" ]

GETResponse(videoId, draw) ==
    IF videoId = ""
      THEN JsonResponse(400, [error |-> "ID do video nao fornecido"])
    ELSE IF mockProgress(draw) >= 100
      THEN JsonResponse(200,
             [ status |-> "completed",
               progress |-> 100,
               currentStep |-> "Completed",
               timeRemaining |-> 0,
               video |-> completedVideo(videoId) ])
    ELSE JsonResponse(200,
             [ status |-> "processing",
               progress |-> mockProgress(draw),
               currentStep |-> currentStep(mockProgress(draw)),
               timeRemaining |-> timeRemaining(mockProgress(draw)) ])

\* The request as the handler saw it: no number is drawn for a missing id.
NoDraw == [none |-> TRUE]
StatusRequest(videoId, draw) ==
    [videoId |-> videoId, draw |-> IF videoId = "" THEN NoDraw ELSE [n |-> draw]]

\* A status poll that reads the progress it reported last for the same id
\* and never reports less.
GETFromStoredProgress(videoId, draw) ==
    LET last == IF statusReq.videoId = videoId /\ videoId # ""
                THEN statusResp.body.progress ELSE 0
    IN  /\ statusReq' = StatusRequest(videoId, draw)
        /\ statusResp' = GETResponse(videoId, Max(draw, last - 1))
        /\ prevStatusReq' = statusReq
        /\ prevStatusResp' = statusResp
        /\ UNCHANGED <<view, uploadVars, queueVars, wordVars, ffmpegVars, processorVars>>

\* One status poll.  The handler reads no variable: the poll before is kept
\* only to compare consecutive polls.
GET(videoId, draw) ==
    /\ statusReq' = StatusRequest(videoId, draw)
    /\ statusResp' = GETResponse(videoId, draw)
    /\ prevStatusReq' = statusReq
    /\ prevStatusResp' = statusResp
    /\ UNCHANGED <<view, uploadVars, queueVars, wordVars, ffmpegVars, processorVars>>

(***************************************************************************)
(* Progress view (ProcessingStatus in page.tsx)                            *)
(*                                                                         *)
(* The view polls the status route: once when its effect runs and then     *)
(* every two seconds.  A request is in flight from its fetch to the moment *)
(* its response is handled, and the timer may fire in between.  The parent *)
(* (Home) passes an onComplete that switches the page to the preview,      *)
(* which unmounts the view.                                                *)
(***************************************************************************)

\* Status requests in flight together.
MaxInFlight == 2

\* What a fetch of the view resolves with: the body of a response of the
\* status route, or a body with status 'error'.
ViewData ==
    { GETResponse("v1", draw).body : draw \in RandomDraws }
      \cup { [status |-> "error", error |-> "failed"] }

\* getCurrentStepIndex(): stepMap[status.currentStep] ?? 0
getCurrentStepIndex(label) ==
    CASE label = "uploading" -> 0
      [] label = "Validating video" -> 1
      [] label = "Extracting audio" -> 2
      [] label = "Analyzing with AI" -> 3
      [] label = "Generating visual effects" -> 4
      [] label = "Rendering video" -> 5
      [] label = "Generating thumbnail" -> 6
      [] label = "Finalizing" -> 7
      [] OTHER -> 0

\* data.x || fallback for a field the body may lack
dataOr(data, name, fallback) ==
    IF name \in DOMAIN data THEN data[name] ELSE fallback

\* The state setStatus({...}) stores for a body (a timeRemaining of -1
\* stands for undefined).
viewStatus(data) ==
    [ progress |-> dataOr(data, "progress", 0),
      currentStep |-> dataOr(data, "currentStep", "processing"),
      timeRemaining |-> dataOr(data, "timeRemaining", -1),
      error |-> dataOr(data, "error", UNDEFINED) ]

\* The view after its effect has run: the interval is set and the first
\* checkStatus() has issued its request.
InitView ==
    [ mounted |-> TRUE, timerOn |-> TRUE, inFlight |-> 1,
      status |-> [ progress |-> 0, currentStep |-> "uploading",
                   timeRemaining |-> -1, error |-> UNDEFINED ],
      stepIndex |-> getCurrentStepIndex("uploading"),
      pending |-> 0, onCompleteCalls |-> 0,
      finalHandled |-> FALSE, issuedAfterFinal |-> FALSE ]

\* The interval fires: checkStatus() issues a request.
PollTimer ==
    /\ view.timerOn
    /\ view.inFlight < MaxInFlight
    /\ view' = [view EXCEPT !.inFlight = @ + 1,
                            !.issuedAfterFinal = @ \/ view.finalHandled]
    /\ UNCHANGED <<statusReq, statusResp, prevStatusReq, prevStatusResp,
                   uploadVars, queueVars, wordVars, ffmpegVars, processorVars>>

\* A fetch resolves with `data`: setStatus, and for a completed body with a
\* video clearInterval and setTimeout(onComplete, 1000), for an error body
\* clearInterval.
FetchResolves(data) ==
    LET completed == data.status = "completed" /\ "video" \in DOMAIN data
        error == data.status = "error"
    IN  /\ view.inFlight > 0
        /\ view' = [view EXCEPT
              !.inFlight = @ - 1,
              !.status = viewStatus(data),
              !.stepIndex = getCurrentStepIndex(viewStatus(data).currentStep),
              !.timerOn = @ /\ ~completed /\ ~error,
              !.pending = IF completed THEN @ + 1 ELSE @,
              !.finalHandled = @ \/ completed \/ error]
        /\ UNCHANGED <<statusReq, statusResp, prevStatusReq, prevStatusResp,
                       uploadVars, queueVars, wordVars, ffmpegVars, processorVars>>

\* A fetch rejects, or its body is no JSON: the catch block logs it.
FetchRejects ==
    /\ view.inFlight > 0
    /\ view' = [view EXCEPT !.inFlight = @ - 1]
    /\ UNCHANGED <<statusReq, statusResp, prevStatusReq, prevStatusResp,
                   uploadVars, queueVars, wordVars, ffmpegVars, processorVars>>

\* A setTimeout callback runs onComplete(data.video): Home stores the video
\* and leaves the processing state, the view unmounts and its cleanup
\* clears the interval.
OnCompleteTimer ==
    /\ view.pending > 0
    /\ view' = [view EXCEPT !.pending = @ - 1, !.onCompleteCalls = @ + 1,
                            !.mounted = FALSE, !.timerOn = FALSE]
    /\ UNCHANGED <<statusReq, statusResp, prevStatusReq, prevStatusResp,
                   uploadVars, queueVars, wordVars, ffmpegVars, processorVars>>

(***************************************************************************)
(* In-memory queue (queue.ts)                                              *)
(***************************************************************************)

\* Jobs callers create (in all, and while a loop is followed) and the
\* largest maxRetries a loop is started with.
MaxJobs == 3
MaxRetryJobs == 2
MaxRetriesTried == 3
\* How often one job is handed to a processor before the model stops
\* following it (a loop on COMPLETED or FAILED feeds itself for ever).
MaxAttempts == 4

QUEUES == [ UPLOAD |-> "queue:upload", PROCESS |-> "queue:process",
            RENDER |-> "queue:render", COMPLETED |-> "queue:completed",
            FAILED |-> "queue:failed" ]

QueueNames == DOMAIN QUEUES
QueueKeys == { QUEUES[n] : n \in QueueNames }

JobIds == 1..MaxJobs
Priorities == 1..3
Workers == {"w1", "w2"}

\* A QueueJob.  Ids are numbers here; data.retryCount = 0 stands for a data
\* object without retryCount ((retryCount || 0) reads both as 0) and
\* data.error = "" for one without error.  createdAt (Date.now()) is left out.
QueueJob(id, priority, retryCount) ==
    [ id |-> id, type |-> "process", videoId |-> id, priority |-> priority,
      data |-> [retryCount |-> retryCount, error |-> ""] ]

NoJob == [id |-> 0, none |-> TRUE]

\* The job put at the head of the lane (unshift for push).
enqueueFront(queues, queueName, job) ==
    [queues EXCEPT ![QUEUES[queueName]] = <<job>> \o @]

\* inMemoryQueues[queue].push(fullJob)
enqueue(queues, queueName, job) ==
    [queues EXCEPT ![QUEUES[queueName]] = Append(@, job)]

\* inMemoryQueues[queue].shift(): the lanes after it, and the job (or null)
dequeueJob(queues, queueName) ==
    IF queues[QUEUES[queueName]] = <<>> THEN NoJob
    ELSE Head(queues[QUEUES[queueName]])

\* A shift that takes the job behind the head away as well.
dequeueDropping(queues, queueName) ==
    IF queues[QUEUES[queueName]] = <<>> THEN queues
    ELSE [queues EXCEPT ![QUEUES[queueName]] =
                            IF Len(@) >= 2 THEN Tail(Tail(@)) ELSE <<>>]

\* A read of the head that leaves it in the lane.
dequeuePeek(queues, queueName) == queues

dequeue(queues, queueName) ==
    IF queues[QUEUES[queueName]] = <<>> THEN queues
    ELSE [queues EXCEPT ![QUEUES[queueName]] = Tail(@)]

\* findIndex with <= for <.
insertIndexInclusive(jobs, job) ==
    LET lower == { i \in 1..Len(jobs) : jobs[i].priority <= job.priority }
    IN  IF lower = {} THEN -1
        ELSE (CHOOSE i \in lower : \A k \in lower : i <= k) - 1

\* jobs.findIndex((j) => j.priority < job.priority): 0-based, -1 when none
insertIndex(jobs, job) ==
    LET lower == { i \in 1..Len(jobs) : jobs[i].priority < job.priority }
    IN  IF lower = {} THEN -1
        ELSE (CHOOSE i \in lower : \A k \in lower : i <= k) - 1

\* jobs.splice(index, 0, job)
splice(jobs, index, job) ==
    SubSeq(jobs, 1, index) \o <<job>> \o SubSeq(jobs, index + 1, Len(jobs))

enqueuePriority(queues, queueName, job) ==
    LET jobs == queues[QUEUES[queueName]]
    IN  IF insertIndex(jobs, job) = -1
        THEN [queues EXCEPT ![QUEUES[queueName]] = Append(jobs, job)]
        ELSE [queues EXCEPT ![QUEUES[queueName]] =
                                splice(jobs, insertIndex(jobs, job), job)]

NoOp == [op |-> "none"]

\* A caller enqueues a new job (the next unused id).
Enqueue(queueName, priority, retryCount) ==
    LET job == QueueJob(Len(submitted) + 1, priority, retryCount)
    IN  /\ Len(submitted) < MaxJobs
        /\ inMemoryQueues' = enqueue(inMemoryQueues, queueName, job)
        /\ submitted' = Append(submitted, [queueName |-> queueName, job |-> job])
        /\ lastOp' = [ op |-> "enqueue", queueName |-> queueName, job |-> job,
                       before |-> inMemoryQueues[QUEUES[queueName]] ]
        /\ UNCHANGED <<statsCall, loops, attempts, threw, jobStatusVars,
                   uploadVars, statusVars, wordVars, ffmpegVars, processorVars>>

\* A caller enqueues a new job by priority.
EnqueuePriority(queueName, priority, retryCount) ==
    LET job == QueueJob(Len(submitted) + 1, priority, retryCount)
    IN  /\ Len(submitted) < MaxJobs
        /\ inMemoryQueues' = enqueuePriority(inMemoryQueues, queueName, job)
        /\ submitted' = Append(submitted, [queueName |-> queueName, job |-> job])
        /\ lastOp' = [ op |-> "enqueuePriority", queueName |-> queueName,
                       job |-> job, before |-> inMemoryQueues[QUEUES[queueName]] ]
        /\ UNCHANGED <<statsCall, loops, attempts, threw, jobStatusVars,
                   uploadVars, statusVars, wordVars, ffmpegVars, processorVars>>

\* A caller's dequeue(queueName).
Dequeue(queueName) ==
    /\ lastOp # NoOp   \* something was enqueued before
    /\ inMemoryQueues' = dequeue(inMemoryQueues, queueName)
    /\ lastOp' = [ op |-> "dequeue", queueName |-> queueName,
                   job |-> dequeueJob(inMemoryQueues, queueName),
                   before |-> inMemoryQueues[QUEUES[queueName]] ]
    /\ UNCHANGED <<statsCall, submitted, loops, attempts, threw, jobStatusVars,
                   uploadVars, statusVars, wordVars, ffmpegVars, processorVars>>

\* A caller's dequeuePriority(queueName): return dequeue(queueName).
DequeuePriority(queueName) ==
    /\ lastOp # NoOp
    /\ inMemoryQueues' = dequeue(inMemoryQueues, queueName)
    /\ lastOp' = [ op |-> "dequeuePriority", queueName |-> queueName,
                   job |-> dequeueJob(inMemoryQueues, queueName),
                   before |-> inMemoryQueues[QUEUES[queueName]] ]
    /\ UNCHANGED <<statsCall, submitted, loops, attempts, threw, jobStatusVars,
                   uploadVars, statusVars, wordVars, ffmpegVars, processorVars>>

\* ---- sizes, clearing, peeking ----

\* inMemoryQueues[queue].length
getQueueSize(queues, queueName) == Len(queues[QUEUES[queueName]])

\* A clear that empties every lane.
clearQueueAll(queues, queueName) == [k \in DOMAIN queues |-> <<>>]

\* inMemoryQueues[queue] = []
clearQueue(queues, queueName) == [queues EXCEPT ![QUEUES[queueName]] = <<>>]

\* [...inMemoryQueues[queue]]: a copy of the lane
peekQueue(queues, queueName) == queues[QUEUES[queueName]]

\* A caller's getQueueSize(queueName).
GetQueueSize(queueName) ==
    /\ lastOp' = [ op |-> "getQueueSize", queueName |-> queueName,
                   result |-> getQueueSize(inMemoryQueues, queueName) ]
    /\ UNCHANGED <<statsCall, inMemoryQueues, submitted, loops, attempts, threw,
                   jobStatusVars,
                   uploadVars, statusVars, wordVars, ffmpegVars, processorVars>>

\* A caller's clearQueue(queueName).
ClearQueue(queueName) ==
    /\ inMemoryQueues' = clearQueue(inMemoryQueues, queueName)
    /\ lastOp' = [ op |-> "clearQueue", queueName |-> queueName,
                   before |-> inMemoryQueues[QUEUES[queueName]] ]
    /\ UNCHANGED <<statsCall, submitted, loops, attempts, threw, jobStatusVars,
                   uploadVars, statusVars, wordVars, ffmpegVars, processorVars>>

\* A caller's peekQueue(queueName).
PeekQueue(queueName) ==
    /\ lastOp' = [ op |-> "peekQueue", queueName |-> queueName,
                   result |-> peekQueue(inMemoryQueues, queueName) ]
    /\ UNCHANGED <<statsCall, inMemoryQueues, submitted, loops, attempts, threw,
                   jobStatusVars,
                   uploadVars, statusVars, wordVars, ffmpegVars, processorVars>>

\* getQueueStats() reads the sizes one after the other, awaiting each read:
\* the lanes in the order of the stats object, and the keys of that object.
StatsLanes == << "UPLOAD", "PROCESS", "RENDER", "COMPLETED", "FAILED" >>
StatsKeys == << "upload", "process", "render", "completed", "failed" >>

NoStats == [pc |-> "idle"]

\* A caller's getQueueStats(): the call begins.
GetQueueStats ==
    /\ statsCall.pc # "reading"
    /\ statsCall' = [pc |-> "reading", sizes |-> <<>>]
    /\ UNCHANGED <<inMemoryQueues, submitted, lastOp, loops, attempts, threw,
                   jobStatusVars,
                   uploadVars, statusVars, wordVars, ffmpegVars, processorVars>>

\* await getQueueSize(...) of the next lane; after the last one the stats
\* object is returned.
GetQueueStatsRead ==
    /\ statsCall.pc = "reading"
    /\ LET sizes == Append(statsCall.sizes,
                           getQueueSize(inMemoryQueues,
                                        StatsLanes[Len(statsCall.sizes) + 1]))
       IN  statsCall' =
             IF Len(sizes) < Len(StatsLanes)
             THEN [pc |-> "reading", sizes |-> sizes]
             ELSE [ pc |-> "returned",
                    stats |-> [k \in { StatsKeys[i] : i \in 1..Len(StatsKeys) } |->
                                 sizes[CHOOSE i \in 1..Len(StatsKeys) : StatsKeys[i] = k]] ]
    /\ UNCHANGED <<inMemoryQueues, submitted, lastOp, loops, attempts, threw,
                   jobStatusVars,
                   uploadVars, statusVars, wordVars, ffmpegVars, processorVars>>

\* ---- job status tracking ----

\* How many records callers write for one job id.
MaxStatusWrites == 2

\* The ids callers use, and the status records they write (a record has
\* the fields its caller passed: progress, and any of the optional ones).
StatusIds == {1, 2}

StatusRecords ==
    { [progress |-> 10],
      [progress |-> 50, currentStep |-> "Rendering video", timeRemaining |-> 58],
      [progress |-> 100, currentStep |-> "Completed", timeRemaining |-> 0,
       totalTime |-> 8],
      [progress |-> 0, currentStep |-> "Failed", error |-> "boom",
       timeRemaining |-> 0],
      [progress |-> 0] }

\* const jobStatuses = {}: no id has a record.
NoStatuses == <<>>

\* An assignment that keeps the fields of the stored record the new one
\* does not have ({...jobStatuses[jobId], ...status}).
setJobStatusMerging(statuses, jobId, status) ==
    IF jobId \in DOMAIN statuses
    THEN (jobId :> [f \in DOMAIN status \cup DOMAIN statuses[jobId] |->
                      IF f \in DOMAIN status THEN status[f]
                      ELSE statuses[jobId][f]]) @@ statuses
    ELSE (jobId :> status) @@ statuses

\* jobStatuses[jobId] = status
setJobStatus(statuses, jobId, status) == (jobId :> status) @@ statuses

\* The null getJobStatus returns.
NullStatus == [null |-> TRUE]

\* jobStatuses[jobId] || null (a stored record is an object, hence truthy)
getJobStatus(statuses, jobId) ==
    IF jobId \in DOMAIN statuses THEN statuses[jobId] ELSE NullStatus

\* The records written for a job id so far.
LogOf(jobId) == IF jobId \in DOMAIN statusLog THEN statusLog[jobId] ELSE <<>>

NoGet == [none |-> TRUE]

\* A caller's setJobStatus(jobId, status).  The body has no await: it runs
\* to its end when called, so concurrent calls take effect one after another.
SetJobStatus(jobId, status) ==
    /\ Len(LogOf(jobId)) < MaxStatusWrites
    /\ jobStatuses' = setJobStatus(jobStatuses, jobId, status)
    /\ statusLog' = (jobId :> Append(LogOf(jobId), status)) @@ statusLog
    /\ UNCHANGED <<statsCall, lastGet, inMemoryQueues, submitted, lastOp, loops, attempts, threw,
                   uploadVars, statusVars, wordVars, ffmpegVars, processorVars>>

\* A caller's getJobStatus(jobId).
GetJobStatus(jobId) ==
    /\ lastGet' = [jobId |-> jobId, result |-> getJobStatus(jobStatuses, jobId)]
    /\ UNCHANGED <<statsCall, jobStatuses, statusLog, inMemoryQueues, submitted, lastOp, loops,
                   attempts, threw,
                   uploadVars, statusVars, wordVars, ffmpegVars, processorVars>>

\* ---- processQueue ----

Stopped == [state |-> "stopped"]

\* processQueue(queueName, processor, {maxRetries}) is called: the loop runs.
StartProcessQueue(w, queueName, maxRetries) ==
    /\ loops[w] = Stopped
    /\ loops' = [loops EXCEPT ![w] = [ state |-> "polling", queueName |-> queueName,
                                       maxRetries |-> maxRetries, job |-> NoJob ]]
    /\ UNCHANGED <<statsCall, inMemoryQueues, submitted, lastOp, attempts, threw,
                   jobStatusVars,
                   uploadVars, statusVars, wordVars, ffmpegVars, processorVars>>

\* One turn of the while loop up to the processor call: dequeue, and either
\* hand the job to the processor or sleep pollInterval and poll again.
LoopDequeue(w) ==
    /\ loops[w].state = "polling"
    /\ LET job == dequeueJob(inMemoryQueues, loops[w].queueName)
       IN  IF job = NoJob
           THEN UNCHANGED <<inMemoryQueues, loops, attempts>>
           ELSE /\ attempts[job.id] < MaxAttempts
                /\ inMemoryQueues' = dequeue(inMemoryQueues, loops[w].queueName)
                /\ loops' = [loops EXCEPT ![w].state = "processing", ![w].job = job]
                /\ attempts' = [attempts EXCEPT ![job.id] = @ + 1]
    /\ UNCHANGED <<statsCall, submitted, lastOp, threw, jobStatusVars,
                   uploadVars, statusVars, wordVars, ffmpegVars, processorVars>>

\* await processor(job) resolves: the job goes to COMPLETED.
ProcessorReturns(w) ==
    /\ loops[w].state = "processing"
    /\ inMemoryQueues' = enqueue(inMemoryQueues, "COMPLETED", loops[w].job)
    /\ loops' = [loops EXCEPT ![w].state = "polling", ![w].job = NoJob]
    /\ UNCHANGED <<statsCall, submitted, lastOp, attempts, threw, jobStatusVars,
                   uploadVars, statusVars, wordVars, ffmpegVars, processorVars>>

\* A retry test that never gives up.
shouldRetryAlways(retryCount, maxRetries) == TRUE

\* The retry test with <= for <.
shouldRetryInclusive(retryCount, maxRetries) == retryCount <= maxRetries

\* retryCount < maxRetries
shouldRetry(retryCount, maxRetries) == retryCount < maxRetries

\* await processor(job) rejects: the catch block re-enqueues the job on its
\* lane with the new retryCount, or puts it on FAILED with the error message.
ProcessorThrows(w) ==
    /\ loops[w].state = "processing"
    /\ LET job == loops[w].job
           retryCount == job.data.retryCount + 1
       IN  /\ IF shouldRetry(retryCount, loops[w].maxRetries)
              THEN inMemoryQueues' =
                     enqueue(inMemoryQueues, loops[w].queueName,
                             [job EXCEPT !.data.retryCount = retryCount])
              ELSE inMemoryQueues' =
                     enqueue(inMemoryQueues, "FAILED",
                             [job EXCEPT !.data.error = "processor error"])
           /\ threw' = [threw EXCEPT ![job.id] = @ + 1]
    /\ loops' = [loops EXCEPT ![w].state = "polling", ![w].job = NoJob]
    /\ UNCHANGED <<statsCall, submitted, lastOp, attempts, jobStatusVars,
                   uploadVars, statusVars, wordVars, ffmpegVars, processorVars>>

InitQueue ==
    /\ inMemoryQueues = [k \in QueueKeys |-> <<>>]
    /\ submitted = <<>>
    /\ lastOp = NoOp
    /\ loops = [w \in Workers |-> Stopped]
    /\ attempts = [id \in JobIds |-> 0]
    /\ threw = [id \in JobIds |-> 0]
    /\ jobStatuses = NoStatuses
    /\ statusLog = <<>>
    /\ lastGet = NoGet
    /\ statsCall = NoStats

(***************************************************************************)
(* Video processor (processVideo, queueVideoProcessing)                    *)
(*                                                                         *)
(* A processVideo call advances from one await to the next; calls that are *)
(* in progress together interleave at their awaits.  No call of the try    *)
(* block throws in this simulated pipeline, so the catch block runs only   *)
(* when the promise a step of the loop waits on rejects: the model lets    *)
(* the environment choose that, at any step of the loop.                   *)
(***************************************************************************)

\* processVideo calls followed.
MaxRuns == 2

RunIds == 1..MaxRuns
\* The video the calls are for (calls for one video are the ones that
\* could meet in shared records).
ProcessorVideoIds == {101}

\* const STEP_DURATIONS = {...}: the keys in their order, and the seconds
STEP_KEYS == << "validation", "extraction", "analysis", "effects", "rendering",
               "thumbnail", "upload" >>

STEP_DURATIONS ==
    [ validation |-> 3, extraction |-> 8, analysis |-> 15, effects |-> 10,
      rendering |-> 50, thumbnail |-> 5, upload |-> 9 ]

\* stepMap[currentStep] || 'rendering'
stepMap(step) ==
    CASE step = "Validating video" -> "validation"
      [] step = "Extracting audio" -> "extraction"
      [] step = "Analyzing with AI" -> "analysis"
      [] step = "Generating visual effects" -> "effects"
      [] step = "Rendering video" -> "rendering"
      [] step = "Generating thumbnail" -> "thumbnail"
      [] step = "Uploading" -> "upload"
      [] OTHER -> "rendering"

\* steps.indexOf(key), from 1
stepIndexOf(key) == CHOOSE i \in 1..Len(STEP_KEYS) : STEP_KEYS[i] = key

RECURSIVE futureStepsTime(_)
futureStepsTime(i) ==
    IF i > Len(STEP_KEYS) THEN 0
    ELSE STEP_DURATIONS[STEP_KEYS[i]] + futureStepsTime(i + 1)

\* calculateTimeRemaining(currentStep, stepProgress, videoDuration), with
\* totalRemaining kept in 1/6000 of a second:
\*   (duration * (1 - stepProgress / 100) + futureStepsTime)
\*     * Math.min(videoDuration / 60, 3)
\* and Math.max(5, Math.round(totalRemaining)).
calculateTimeRemaining(step, stepProgress, videoDuration) ==
    LET key == stepMap(step)
        total6000 ==
            (STEP_DURATIONS[key] * (100 - stepProgress)
               + 100 * futureStepsTime(stepIndexOf(key) + 1))
              * Min(videoDuration, 180)
    IN  Max(5, (total6000 + 3000) \div 6000)

\* const mockDuration = 120
mockDuration == 120

\* The steps with 'Uploading' (95) ahead of 'Generating thumbnail' (92).
pipelineStepsUploadFirst ==
    << [progress |-> 5, step |-> "Validating video"],
       [progress |-> 15, step |-> "Extracting audio"],
       [progress |-> 30, step |-> "Analyzing with AI"],
       [progress |-> 50, step |-> "Generating visual effects"],
       [progress |-> 70, step |-> "Rendering video"],
       [progress |-> 95, step |-> "Uploading"],
       [progress |-> 92, step |-> "Generating thumbnail"],
       [progress |-> 98, step |-> "Finalizing"] >>

\* const steps = [...] of processVideo (the delays are not modelled: each
\* is a timer the run awaits)
pipelineSteps ==
    << [progress |-> 5, step |-> "Validating video"],
       [progress |-> 15, step |-> "Extracting audio"],
       [progress |-> 30, step |-> "Analyzing with AI"],
       [progress |-> 50, step |-> "Generating visual effects"],
       [progress |-> 70, step |-> "Rendering video"],
       [progress |-> 92, step |-> "Generating thumbnail"],
       [progress |-> 95, step |-> "Uploading"],
       [progress |-> 98, step |-> "Finalizing"] >>

\* Math.round((Date.now() - startTime) / 1000): the delays add up to 8 s
TotalTimes == {8, 9}

\* What a rejected promise carries: an Error with a message, or another value
ThrownErrors == { [isError |-> TRUE, message |-> "boom"],
                  [isError |-> FALSE, message |-> ""] }

\* The message read from whatever was thrown.
errorMessageAlways(error) == error.message

\* error instanceof Error ? error.message : 'Unknown error'
errorMessageOf(error) == IF error.isError THEN error.message ELSE "Unknown error"

\* An identifier every call uses again.
jobIdReused(jobs) == 1

\* `job_${Date.now()}_${random}`: an id no earlier job has (ids are numbers
\* here: the number of the job)
newJobId(jobs) == Cardinality(DOMAIN jobs) + 1

\* createProcessingJob(data): the jobs after it
createProcessingJob(jobs, jobId, videoId, status) ==
    (jobId :> [ id |-> jobId, video_id |-> videoId, status |-> status,
                progress |-> 0, currentStep |-> "Validating video" ]) @@ jobs

\* updateJobProgress(jobId, progress, currentStep, status): the jobs after it
updateJobProgress(jobs, jobId, progress, step, status) ==
    IF jobId \in DOMAIN jobs
    THEN [jobs EXCEPT ![jobId].progress = progress,
                      ![jobId].currentStep = step,
                      ![jobId].status = status]
    ELSE jobs

\* updateVideoStatus(videoId, status, updates): the videos after it
\* (updated_at is left out)
updateVideoStatus(vids, videoId, status, updates) ==
    IF videoId \in DOMAIN vids
    THEN [vids EXCEPT ![videoId] =
            [f \in DOMAIN @ \cup {"status"} \cup DOMAIN updates |->
                IF f \in DOMAIN updates THEN updates[f]
                ELSE IF f = "status" THEN status ELSE @[f]]]
    ELSE vids

\* mockAnalysis(), by its score
mockAnalysis == [virality_score |-> 85]

\* saveAIAnalysis(videoId, analysis): the videos after it
saveAIAnalysis(vids, videoId, analysis) ==
    IF videoId \in DOMAIN vids
    THEN [vids EXCEPT ![videoId] =
            [f \in DOMAIN @ \cup {"ai_analysis"} |->
                IF f = "ai_analysis" THEN analysis ELSE @[f]]]
    ELSE vids

NotCalled == [pc |-> "idle"]
NoError == [none |-> TRUE]

\* The record a run of processVideo passes to setJobStatus at a step.
stepStatus(i) ==
    [ progress |-> pipelineSteps[i].progress,
      currentStep |-> pipelineSteps[i].step,
      timeRemaining |-> calculateTimeRemaining(pipelineSteps[i].step,
                                               pipelineSteps[i].progress,
                                               mockDuration) ]

\* processVideo(videoId, ...) is called: it creates its processing job and
\* awaits the timer of the first step.  (Calls are numbered in the order in
\* which they are made.)
ProcessVideo(r, videoId) ==
    /\ runs[r] = NotCalled
    /\ \A q \in RunIds : q < r => runs[q] # NotCalled
    /\ LET jobId == newJobId(processingJobs)
       IN  /\ processingJobs' =
                 createProcessingJob(processingJobs, jobId, videoId, "running")
           /\ runs' = [runs EXCEPT ![r] =
                 [ pc |-> "timer", i |-> 1, videoId |-> videoId, jobId |-> jobId,
                   error |-> NoError, totalTime |-> 0, rejection |-> NoError ]]
    /\ UNCHANGED <<videos, queueCalls, uploadVars, statusVars, queueVars, wordVars, ffmpegVars>>

\* The timer of step i fires: updateJobProgress(job.id, progress, step,
\* 'running') is called and awaited.
StepProgress(r) ==
    /\ runs[r].pc = "timer"
    /\ processingJobs' =
          updateJobProgress(processingJobs, runs[r].jobId,
                            pipelineSteps[runs[r].i].progress,
                            pipelineSteps[runs[r].i].step, "running")
    /\ runs' = [runs EXCEPT ![r].pc = "progress"]
    /\ UNCHANGED <<videos, queueCalls, uploadVars, statusVars, queueVars, wordVars, ffmpegVars>>

\* setJobStatus(job.id, {progress, currentStep, timeRemaining}) is called and
\* awaited; the loop then starts the timer of the next step, or ends.
StepStatus(r) ==
    /\ runs[r].pc = "progress"
    /\ jobStatuses' = setJobStatus(jobStatuses, runs[r].jobId, stepStatus(runs[r].i))
    /\ statusLog' = (runs[r].jobId :> Append(LogOf(runs[r].jobId), stepStatus(runs[r].i)))
                      @@ statusLog
    /\ runs' = IF runs[r].i < Len(pipelineSteps)
               THEN [runs EXCEPT ![r].pc = "timer", ![r].i = @ + 1]
               ELSE [runs EXCEPT ![r].pc = "afterLoop"]
    /\ UNCHANGED <<statsCall, lastGet, inMemoryQueues, submitted, lastOp, loops, attempts, threw,
                   processingJobs, videos,
                   queueCalls, uploadVars, statusVars, wordVars, ffmpegVars>>

\* saveAIAnalysis(videoId, mockAnalysis()) is called and awaited.
SaveAnalysis(r) ==
    /\ runs[r].pc = "afterLoop"
    /\ videos' = saveAIAnalysis(videos, runs[r].videoId, mockAnalysis)
    /\ runs' = [runs EXCEPT ![r].pc = "analysis"]
    /\ UNCHANGED <<processingJobs, queueCalls, uploadVars, statusVars, queueVars, wordVars, ffmpegVars>>

\* updateJobProgress(job.id, 100, 'Completed', 'completed')
CompletedProgress(r, totalTime) ==
    /\ runs[r].pc = "analysis"
    /\ processingJobs' =
          updateJobProgress(processingJobs, runs[r].jobId, 100, "Completed", "completed")
    /\ runs' = [runs EXCEPT ![r].pc = "completedProgress", ![r].totalTime = totalTime]
    /\ UNCHANGED <<videos, queueCalls, uploadVars, statusVars, queueVars, wordVars, ffmpegVars>>

\* setJobStatus(job.id, {progress: 100, currentStep: 'Completed',
\* timeRemaining: 0, totalTime})
CompletedStatus(r) ==
    LET status == [ progress |-> 100, currentStep |-> "Completed",
                    timeRemaining |-> 0, totalTime |-> runs[r].totalTime ]
    IN  /\ runs[r].pc = "completedProgress"
        /\ jobStatuses' = setJobStatus(jobStatuses, runs[r].jobId, status)
        /\ statusLog' = (runs[r].jobId :> Append(LogOf(runs[r].jobId), status))
                          @@ statusLog
        /\ runs' = [runs EXCEPT ![r].pc = "completedStatus"]
        /\ UNCHANGED <<statsCall, lastGet, inMemoryQueues, submitted, lastOp, loops, attempts,
                       threw, processingJobs, videos,
                       queueCalls, uploadVars, statusVars, wordVars, ffmpegVars>>

\* updateVideoStatus(videoId, 'completed', {processed_url, thumbnail_url,
\* duration, ai_analysis})
CompletedVideo(r) ==
    /\ runs[r].pc = "completedStatus"
    /\ videos' = updateVideoStatus(videos, runs[r].videoId, "completed",
                    [ processed_url |-> "BigBuckBunny.mp4",
                      thumbnail_url |-> "photo-1574717024653",
                      duration |-> mockDuration, ai_analysis |-> mockAnalysis ])
    /\ runs' = [runs EXCEPT ![r].pc = "completedVideo"]
    /\ UNCHANGED <<processingJobs, queueCalls, uploadVars, statusVars, queueVars, wordVars, ffmpegVars>>

\* enqueue('COMPLETED', {id: job.id, ...}); the call resolves.
CompletedEnqueue(r) ==
    /\ runs[r].pc = "completedVideo"
    /\ inMemoryQueues' =
          enqueue(inMemoryQueues, "COMPLETED",
                  [ id |-> runs[r].jobId, type |-> "process",
                    videoId |-> runs[r].videoId, priority |-> 0,
                    data |-> [status |-> "completed", totalTime |-> runs[r].totalTime] ])
    /\ runs' = [runs EXCEPT ![r].pc = "resolved"]
    /\ UNCHANGED <<statsCall, submitted, lastOp, loops, attempts, threw, jobStatusVars,
                   processingJobs, videos,
                   queueCalls, uploadVars, statusVars, wordVars, ffmpegVars>>

\* The promise step i waits on rejects with `error`: the catch block calls
\* updateJobProgress(job.id, 0, 'Failed', 'failed') and awaits it.
StepRejects(r, error) ==
    /\ runs[r].pc = "timer"
    /\ processingJobs' =
          updateJobProgress(processingJobs, runs[r].jobId, 0, "Failed", "failed")
    /\ runs' = [runs EXCEPT ![r].pc = "failedProgress", ![r].error = error]
    /\ UNCHANGED <<videos, queueCalls, uploadVars, statusVars, queueVars, wordVars, ffmpegVars>>

\* setJobStatus(job.id, {progress: 0, currentStep: 'Failed', error,
\* timeRemaining: 0})
FailedStatus(r) ==
    LET status == [ progress |-> 0, currentStep |-> "Failed",
                    error |-> errorMessageOf(runs[r].error), timeRemaining |-> 0 ]
    IN  /\ runs[r].pc = "failedProgress"
        /\ jobStatuses' = setJobStatus(jobStatuses, runs[r].jobId, status)
        /\ statusLog' = (runs[r].jobId :> Append(LogOf(runs[r].jobId), status))
                          @@ statusLog
        /\ runs' = [runs EXCEPT ![r].pc = "failedStatus"]
        /\ UNCHANGED <<statsCall, lastGet, inMemoryQueues, submitted, lastOp, loops, attempts,
                       threw, processingJobs, videos,
                       queueCalls, uploadVars, statusVars, wordVars, ffmpegVars>>

\* updateVideoStatus(videoId, 'error', {ai_analysis: {error}})
FailedVideo(r) ==
    /\ runs[r].pc = "failedStatus"
    /\ videos' = updateVideoStatus(videos, runs[r].videoId, "error",
                    [ai_analysis |-> [error |-> errorMessageOf(runs[r].error)]])
    /\ runs' = [runs EXCEPT ![r].pc = "failedVideo"]
    /\ UNCHANGED <<processingJobs, queueCalls, uploadVars, statusVars, queueVars, wordVars, ffmpegVars>>

\* enqueue('FAILED', {id: job.id, ...}); throw error: the call rejects.
FailedEnqueue(r) ==
    /\ runs[r].pc = "failedVideo"
    /\ inMemoryQueues' =
          enqueue(inMemoryQueues, "FAILED",
                  [ id |-> runs[r].jobId, type |-> "process",
                    videoId |-> runs[r].videoId, priority |-> 0,
                    data |-> [error |-> errorMessageOf(runs[r].error)] ])
    /\ runs' = [runs EXCEPT ![r].pc = "rejected", ![r].rejection = runs[r].error]
    /\ UNCHANGED <<statsCall, submitted, lastOp, loops, attempts, threw, jobStatusVars,
                   processingJobs, videos,
                   queueCalls, uploadVars, statusVars, wordVars, ffmpegVars>>

\* ---- queueVideoProcessing ----

\* queueVideoProcessing calls followed, and the videos they are for.
MaxQueueCalls == 2
QueueCallIds == 1..MaxQueueCalls
QueuedVideoIds == {101, 102}

NotQueued == [pc |-> "idle"]

\* The job queueVideoProcessing enqueues (data: userId, videoPath and
\* styleConfig, which nothing here reads).
processJob(videoId) ==
    [ id |-> videoId, type |-> "process", videoId |-> videoId, priority |-> 1,
      data |-> [userId |-> "user", videoPath |-> "path"] ]

\* queueVideoProcessing(videoId, ...) is called: enqueue('PROCESS', {...}) is
\* called and awaited.
QueueVideoProcessing(c, videoId) ==
    /\ queueCalls[c] = NotQueued
    /\ \A d \in QueueCallIds : d < c => queueCalls[d] # NotQueued
    /\ inMemoryQueues' = enqueue(inMemoryQueues, "PROCESS", processJob(videoId))
    /\ queueCalls' = [queueCalls EXCEPT ![c] =
          [ pc |-> "enqueued", videoId |-> videoId,
            before |-> inMemoryQueues[QUEUES["PROCESS"]],
            after |-> inMemoryQueues'[QUEUES["PROCESS"]] ]]
    /\ UNCHANGED <<statsCall, submitted, lastOp, loops, attempts, threw, jobStatusVars,
                   processingJobs, videos, runs,
                   uploadVars, statusVars, wordVars, ffmpegVars>>

\* updateVideoStatus(videoId, 'queued') is called and awaited; the call
\* resolves.
QueueVideoStatus(c) ==
    /\ queueCalls[c] # NotQueued
    /\ queueCalls[c].pc = "enqueued"
    /\ videos' = updateVideoStatus(videos, queueCalls[c].videoId, "queued", <<>>)
    /\ queueCalls' = [queueCalls EXCEPT ![c].pc = "resolved"]
    /\ UNCHANGED <<processingJobs, runs,
                   uploadVars, statusVars, queueVars, wordVars, ffmpegVars>>

\* const processingJobs = {}; const videos = {}; no call yet.
InitProcessor ==
    /\ processingJobs = <<>>
    /\ videos = <<>>
    /\ runs = [r \in RunIds |-> NotCalled]
    /\ queueCalls = [c \in QueueCallIds |-> NotQueued]

(***************************************************************************)
(* Transcript post-processing (ai-analyzer.ts)                             *)
(*                                                                         *)
(* Word times are whole ticks of a quarter of a second: on such values the *)
(* floating-point subtractions and comparisons of the code are exact.      *)
(***************************************************************************)

TicksPerSecond == 4

\* Longest transcriptions given to generateCaptions and to the detectors.
MaxCaptionWords == 11
MaxGapWords == 4

\* A TranscriptionWord (confidence is not read by these functions).
Word(text, start, end) == [word |-> text, start |-> start, end |-> end]

\* Transcriptions built from (text, gap before the word, duration) triples,
\* the first word starting at the first gap.
RECURSIVE WordsFrom(_, _)
WordsFrom(shapes, time) ==
    IF shapes = <<>> THEN <<>>
    ELSE LET h == Head(shapes)
         IN  <<Word(h.text, time + h.gap, time + h.gap + h.dur)>>
               \o WordsFrom(Tail(shapes), time + h.gap + h.dur)

SeqsUpTo(S, n) == UNION { [1..k -> S] : k \in 0..n }

CaptionShapes == { [text |-> "viral", gap |-> 0, dur |-> 1],
                   [text |-> "Uau", gap |-> 3, dur |-> 2] }

\* Gaps around the two thresholds (1.0 s = 4 ticks, 2.0 s = 8 ticks), and an
\* overlap.
GapShapes == [text : {"a"}, gap : {-1, 0, 3, 4, 5, 8, 9}, dur : {1}]

KeywordLists == { {}, {"viral"}, {"uau"}, {"Uau"} }

\* String.prototype.toLowerCase on the words used
toLowerCase(w) == IF w = "Uau" THEN "uau" ELSE w

\* Array.prototype.slice(from, to) on a sequence (0-based, to exclusive)
slice(seq, from, to) == SubSeq(seq, from + 1, Min(to, Len(seq)))

\* captionWords.map((w) => w.word).join(' ')
RECURSIVE joinWords(_)
joinWords(ws) ==
    IF ws = <<>> THEN ""
    ELSE IF Len(ws) = 1 THEN ws[1].word
    ELSE ws[1].word \o " " \o joinWords(Tail(ws))

\* .filter((w) => viralKeywords.includes(w.word.toLowerCase())).map((w) => w.word)
RECURSIVE highlightWords(_, _)
highlightWords(ws, keywords) ==
    IF ws = <<>> THEN <<>>
    ELSE (IF toLowerCase(ws[1].word) \in keywords THEN <<ws[1].word>> ELSE <<>>)
           \o highlightWords(Tail(ws), keywords)

wordsPerCaption == 5

\* The slice taking one word too many.
captionWordsOneMore(ws, i) == slice(ws, i, i + wordsPerCaption + 1)

\* words.slice(i, i + wordsPerCaption)
captionWords(ws, i) == slice(ws, i, i + wordsPerCaption)

\* The for loop of generateCaptions from index i on.
RECURSIVE captionsFrom(_, _, _)
captionsFrom(ws, keywords, i) ==
    IF ~(i < Len(ws)) THEN <<>>
    ELSE LET cw == captionWords(ws, i)
         IN  (IF Len(cw) = 0 THEN <<>>
              ELSE << [ text |-> joinWords(cw),
                        start_time |-> cw[1].start,
                        end_time |-> cw[Len(cw)].end,
                        is_highlighted |-> Len(highlightWords(cw, keywords)) > 0,
                        highlight_words |-> highlightWords(cw, keywords) ] >>)
               \o captionsFrom(ws, keywords, i + wordsPerCaption)

generateCaptions(ws, keywords) == captionsFrom(ws, keywords, 0)

\* A scene test with a threshold of half a second.
sceneGapHalfSecond(gap) == 2 * gap > TicksPerSecond

\* gap > 2.0
sceneGap(gap) == gap > 2 * TicksPerSecond

\* The silence test with >= for >.
silenceGapInclusive(duration) == duration >= 1 * TicksPerSecond

\* duration > 1.0
silenceGap(duration) == duration > 1 * TicksPerSecond

\* The for loop of detectScenes from index i (0-based) on.  timestamp is in
\* half ticks (end + gap / 2), confidence in twentieths of a tick-second
\* (Math.min(gap / 5, 1) = Min(gap, 5 s) / 5 s).
RECURSIVE scenesFrom(_, _)
scenesFrom(ws, i) ==
    IF ~(i < Len(ws)) THEN <<>>
    ELSE LET gap == ws[i + 1].start - ws[i].end
         IN  (IF sceneGap(gap)
              THEN << [ timestamp |-> 2 * ws[i].end + gap,
                        type |-> "fade",
                        confidence |-> Min(gap, 5 * TicksPerSecond) ] >>
              ELSE <<>>)
               \o scenesFrom(ws, i + 1)

detectScenes(ws) == scenesFrom(ws, 1)

\* The for loop of detectSilences from index i (0-based) on.
RECURSIVE silencesFrom(_, _)
silencesFrom(ws, i) ==
    IF ~(i < Len(ws)) THEN <<>>
    ELSE LET silenceStart == ws[i].end
             silenceEnd == ws[i + 1].start
             duration == silenceEnd - silenceStart
         IN  (IF silenceGap(duration)
              THEN << [ start |-> silenceStart, end |-> silenceEnd,
                        duration |-> duration ] >>
              ELSE <<>>)
               \o silencesFrom(ws, i + 1)

detectSilences(ws) == silencesFrom(ws, 1)

GenerateCaptions ==
    /\ "captions" \notin computed
    /\ captions' = generateCaptions(words, viralKeywords)
    /\ computed' = computed \cup {"captions"}
    /\ UNCHANGED <<words, viralKeywords, scenes, silences,
                   apiVars,
                   uploadVars, statusVars, queueVars, ffmpegVars, processorVars>>

DetectScenes ==
    /\ "scenes" \notin computed
    /\ scenes' = detectScenes(words)
    /\ computed' = computed \cup {"scenes"}
    /\ UNCHANGED <<words, viralKeywords, captions, silences,
                   apiVars,
                   uploadVars, statusVars, queueVars, ffmpegVars, processorVars>>

DetectSilences ==
    /\ "silences" \notin computed
    /\ silences' = detectSilences(words)
    /\ computed' = computed \cup {"silences"}
    /\ UNCHANGED <<words, viralKeywords, captions, scenes,
                   apiVars,
                   uploadVars, statusVars, queueVars, ffmpegVars, processorVars>>

\* ---- the external-API wrappers ----

\* An optional value: absent (undefined), or present with a value.
None == <<>>
Some(v) == <<v>>

\* What a rejected API promise (or a throwing constructor) carries.
ApiErrors == { [isError |-> TRUE, message |-> "401 Incorrect API key"],
               [isError |-> TRUE, message |-> "Connection error."],
               [isError |-> FALSE, message |-> ""] }

\* error instanceof Error ? error.message : 'Unknown error'
apiErrorMessage(error) == IF error.isError THEN error.message ELSE "Unknown error"

\* openai.audio.transcriptions.create(...): it rejects, or resolves with a
\* response whose words, language and duration may be missing.
TranscriptionApi ==
    [kind : {"rejects"}, error : ApiErrors]
      \cup [ kind : {"responds"}, text : {"", "ola"},
             words : {None, Some(<<>>), Some(<<Word("ola", 0, 2)>>)},
             language : {None, Some(""), Some("pt")},
             duration : {None, Some(0), Some(12)} ]

\* x || fallback, for an optional string, number ('' and 0 are falsy) ...
orElse(x, falsy, fallback) ==
    IF x = None \/ x[1] = falsy THEN fallback ELSE x[1]

\* ... and for an optional array (every array is truthy)
orElseArray(x, fallback) == IF x = None THEN fallback ELSE x[1]

Throws(message) == [kind |-> "throws", message |-> message]
Returns(value) == [kind |-> "returns", value |-> value]

\* transcribeAudio(audioBuffer), given whether the client was constructed
\* (OPENAI_API_KEY set) and what the API does.  A message is the sequence of
\* the parts of its template.
transcribeAudio(configured, api) ==
    IF ~configured THEN Throws(<<"OpenAI API not configured">>)
    ELSE IF api.kind = "rejects"
      THEN Throws(<<"Transcription failed: ", apiErrorMessage(api.error)>>)
    ELSE Returns([ text |-> api.text,
                   words |-> orElseArray(api.words, <<>>),
                   language |-> orElse(api.language, "", "unknown"),
                   duration |-> orElse(api.duration, 0, 0) ])

\* openai.chat.completions.create(...): it rejects, or resolves with no
\* choice, or with one choice whose message content is null or a string.
CompletionContents ==
    { "", "{}", "{\"virality_score\":0.9,\"suggested_title\":\"Uau\"}", "null",
      "[]", "{", "red" }

CompletionApi ==
    [kind : {"rejects"}, error : ApiErrors]
      \cup {[kind |-> "responds", choices |-> 0, content |-> None]}
      \cup [ kind : {"responds"}, choices : {1},
             content : {None} \cup { Some(c) : c \in CompletionContents } ]

\* analysis[name] || fallback of the returned object
fieldOr(analysis, name, fallback) ==
    IF \E pair \in analysis.fields : pair[1] = name
    THEN (CHOOSE pair \in analysis.fields : pair[1] = name)[2]
    ELSE fallback

\* analyzeVirality(transcription): what is thrown inside the try block is
\* caught and thrown again with the prefix.
analyzeVirality(configured, api) ==
    IF ~configured THEN Throws(<<"OpenAI API not configured">>)
    ELSE IF api.kind = "rejects"
      THEN Throws(<<"Virality analysis failed: ", apiErrorMessage(api.error)>>)
    ELSE IF api.choices = 0    \* response.choices[0] is undefined
      THEN Throws(<<"Virality analysis failed: ",
                    "Cannot read properties of undefined (reading 'message')">>)
    ELSE IF api.content = None \/ api.content[1] = ""
      THEN Throws(<<"Virality analysis failed: ", "Empty response from GPT-4">>)
    ELSE IF JSONParseThrows(api.content[1])
      THEN Throws(<<"Virality analysis failed: ", "Unexpected token in JSON">>)
    ELSE IF JSONParse(api.content[1]).kind = "null"   \* analysis.virality_score
      THEN Throws(<<"Virality analysis failed: ",
                    "Cannot read properties of null (reading 'virality_score')">>)
    ELSE LET analysis == JSONParse(api.content[1])
         IN  Returns([ virality_score |-> fieldOr(analysis, "virality_score", "0.5"),
                       suggested_title |-> fieldOr(analysis, "suggested_title", ""),
                       emotion_peaks |-> <<>>, keywords |-> <<>>, topics |-> <<>>,
                       suggested_description |-> "", suggested_hashtags |-> <<>>,
                       suggested_ctas |-> <<>>, scene_changes |-> <<>>,
                       silence_periods |-> <<>>, volume_peaks |-> <<>> ])

TranscribeAudio(configured, api) ==
    /\ apiCall' = [fn |-> "transcribeAudio", configured |-> configured, api |-> api]
    /\ apiResult' = transcribeAudio(configured, api)
    /\ UNCHANGED <<words, viralKeywords, computed, captions, scenes, silences,
                   uploadVars, statusVars, queueVars, ffmpegVars, processorVars>>

AnalyzeVirality(configured, api) ==
    /\ apiCall' = [fn |-> "analyzeVirality", configured |-> configured, api |-> api]
    /\ apiResult' = analyzeVirality(configured, api)
    /\ UNCHANGED <<words, viralKeywords, computed, captions, scenes, silences,
                   uploadVars, statusVars, queueVars, ffmpegVars, processorVars>>

NoCall == [none |-> TRUE]

InitWordsWith(inputs, keywordLists) ==
    /\ words \in inputs
    /\ viralKeywords \in keywordLists
    /\ computed = {}
    /\ captions = <<>>
    /\ scenes = <<>>
    /\ silences = <<>>
    /\ apiCall = NoCall
    /\ apiResult = NoCall

InitWords == InitWordsWith({<<>>}, {{}})

(***************************************************************************)
(* FFmpeg command builders (ffmpeg-commands.ts)                            *)
(*                                                                         *)
(* A text is a sequence of one-character strings.  A built string is the   *)
(* sequence of its parts: the literal pieces of the template, the          *)
(* interpolated values (numbers in their decimal form), and the characters *)
(* of the escaped text.                                                    *)
(***************************************************************************)

\* Longest caption text and thumbnail title.
MaxTextLen == 3

BACKSLASH == "\\"
TextChars == {BACKSLASH, "'", ":", "[", "]", "a"}
Texts == SeqsUpTo(TextChars, MaxTextLen)

\* String.prototype.replace(/ch/g, replacement)
RECURSIVE replaceAll(_, _, _)
replaceAll(text, ch, replacement) ==
    IF text = <<>> THEN <<>>
    ELSE (IF Head(text) = ch THEN replacement ELSE <<Head(text)>>)
           \o replaceAll(Tail(text), ch, replacement)

\* The escaping with the backslash pass last instead of first.
escapeCaptionTextBackslashLast(text) ==
    replaceAll(
      replaceAll(
        replaceAll(
          replaceAll(
            replaceAll(text, "'", <<BACKSLASH, "'">>),
            ":", <<BACKSLASH, ":">>),
          "[", <<BACKSLASH, "[">>),
        "]", <<BACKSLASH, "]">>),
      BACKSLASH, <<BACKSLASH, BACKSLASH>>)

\* text.replace(/\\/g, '\\\\').replace(/'/g, "\\'").replace(/:/g, '\\:')
\*     .replace(/\[/g, '\\[').replace(/\]/g, '\\]')
escapeCaptionText(text) ==
    replaceAll(
      replaceAll(
        replaceAll(
          replaceAll(
            replaceAll(text, BACKSLASH, <<BACKSLASH, BACKSLASH>>),
            "'", <<BACKSLASH, "'">>),
          ":", <<BACKSLASH, ":">>),
        "[", <<BACKSLASH, "[">>),
      "]", <<BACKSLASH, "]">>)

\* title.replace(/\\/g, '\\\\').replace(/'/g, "\\'").replace(/:/g, '\\:')
escapeTitle(title) ==
    replaceAll(
      replaceAll(
        replaceAll(title, BACKSLASH, <<BACKSLASH, BACKSLASH>>),
        "'", <<BACKSLASH, "'">>),
      ":", <<BACKSLASH, ":">>)

\* caption.style: absent, or a CaptionStyle (opacity in percent).
NoStyle == [none |-> TRUE]
CaptionStyles ==
    { NoStyle,
      [ fontSize |-> 48, fontColor |-> "#FFFF00", backgroundColor |-> "#112233",
        opacity |-> 50 ] }

\* Math.round(opacity * 255).toString(16).padStart(2, '0')
opacityHex(opacity) ==
    CASE opacity = 80 -> "cc"     \* round(204)
      [] opacity = 50 -> "80"     \* round(127.5) = 128

CaptionInputs ==
    [ text : Texts, start_time : {0}, end_time : {3}, is_highlighted : BOOLEAN,
      style : CaptionStyles, videoHeight : {1920}, accent : {"#FFE66D"} ]

generateCaptionFilter(caption) ==
    LET captionStyle == caption.style
        fontSize == IF captionStyle = NoStyle THEN 60 ELSE captionStyle.fontSize
        fontColor == IF caption.is_highlighted THEN caption.accent
                     ELSE IF captionStyle = NoStyle THEN "#FFFFFF"
                     ELSE captionStyle.fontColor
        bgColor == IF captionStyle = NoStyle THEN "#000000"
                   ELSE captionStyle.backgroundColor
        opacity == IF captionStyle = NoStyle THEN 80 ELSE captionStyle.opacity
        yPosition == caption.videoHeight - 200
        bgColorWithAlpha == bgColor \o opacityHex(opacity)
    IN  <<"drawtext=fontfile=/usr/share/fonts/truetype/dejavu/DejaVuSans-Bold.ttf:text='">>
          \o escapeCaptionText(caption.text)
          \o << "':fontcolor=", fontColor, ":fontsize=", ToString(fontSize),
                ":box=1:boxcolor=", bgColorWithAlpha,
                ":boxborderw=10:x=(w-text_w)/2:y=", ToString(yPosition),
                ":enable='between(t,", ToString(caption.start_time), ",", ToString(caption.end_time), ")'" >>

ThumbnailInputs ==
    [ inputPath : {"in.mp4"}, outputPath : {"thumb.jpg"}, timestamp : {0, 5},
      title : Texts, width : {1280}, height : {720} ]

generateViralThumbnail(a) ==
    << "ffmpeg -i \"", a.inputPath, "\" -ss ", ToString(a.timestamp),
       " -vframes 1 -vf \"scale=", ToString(a.width), ":", ToString(a.height),
       ",eq=brightness=0.1:contrast=1.2:saturation=1.3,drawtext=fontfile=/usr/share/fonts/truetype/dejavu/DejaVuSans-Bold.ttf:text='" >>
      \o escapeTitle(a.title)
      \o << "':fontcolor=white:fontsize=80:box=1:boxcolor=black@0.7:boxborderw=20:x=(w-text_w)/2:y=h-150\" \"",
            a.outputPath, "\"" >>

GenerateCaptionFilter ==
    /\ captionFilter = <<>>
    /\ captionFilter' = generateCaptionFilter(captionArgs)
    /\ UNCHANGED <<captionArgs, thumbnailArgs, thumbnailCommand,
                   pipelineVars,
                   uploadVars, statusVars, queueVars, wordVars, processorVars>>

GenerateViralThumbnail ==
    /\ thumbnailCommand = <<>>
    /\ thumbnailCommand' = generateViralThumbnail(thumbnailArgs)
    /\ UNCHANGED <<captionArgs, captionFilter, thumbnailArgs,
                   pipelineVars,
                   uploadVars, statusVars, queueVars, wordVars, processorVars>>

\* ---- generateCompleteEditingPipeline ----

\* Longest caption list and effect list.
MaxPipelineItems == 2

\* extractAudio(inputPath, outputPath)
extractAudio(inputPath, outputPath) ==
    << "ffmpeg -i \"", inputPath, "\" -vn -acodec pcm_s16le -ar 44100 -ac 2 \"",
       outputPath, "\"" >>

\* reduceNoise(inputPath, outputPath)
reduceNoise(inputPath, outputPath) ==
    << "ffmpeg -i \"", inputPath,
       "\" -af \"highpass=f=200,lowpass=f=3000,afftdn=nf=-25\" \"", outputPath, "\"" >>

\* normalizeAudio(inputPath, outputPath)
normalizeAudio(inputPath, outputPath) ==
    << "ffmpeg -i \"", inputPath,
       "\" -af \"loudnorm=I=-16:TP=-1.5:LRA=11\" \"", outputPath, "\"" >>

\* applyColorGrade(0.06, 1.1, 1.2)
applyColorGrade(brightness, contrast, saturation) ==
    << "eq=brightness=", brightness, ":contrast=", contrast,
       ":saturation=", saturation >>

\* applyZoomEffect(startTime, endTime, scale, centerX, centerY)
applyZoomEffect(startTime, endTime, scale, centerX, centerY) ==
    << "zoompan=z='if(between(t,", ToString(startTime), ",", ToString(endTime),
       "),", scale, ",1)':d=", ToString(endTime - startTime), ":x='iw*", centerX,
       "':y='ih*", centerY, "':s=1080x1920" >>

\* applyTransition(startTime, 0.5): type is 'fade'
applyTransition(startTime, duration) ==
    << "fade=t=in:st=", ToString(startTime), ":d=", duration >>

\* A path is its part before the last extension and that extension ('' when
\* the name has no dot).  path.replace(/\.[^.]+$/, suffix):
PathString(path) == path.stem \o path.ext
replaceExtension(path, suffix) ==
    IF path.ext = "" THEN PathString(path) ELSE path.stem \o suffix

\* filters.join(','): the parts of the filters, with a ',' part between two
RECURSIVE join(_)
join(filters) ==
    IF filters = <<>> THEN <<>>
    ELSE IF Len(filters) = 1 THEN filters[1]
    ELSE filters[1] \o <<",">> \o join(Tail(filters))

\* The filter an effect adds to the list (none for the other effect types)
effectFilters(effect) ==
    IF effect.effect_type = "zoom"
    THEN << applyZoomEffect(effect.start_time, effect.end_time,
                            orElse(effect.scale, "0", "1.2"),
                            orElse(effect.centerX, "0", "0.5"),
                            orElse(effect.centerY, "0", "0.5")) >>
    ELSE IF effect.effect_type = "transition"
    THEN << applyTransition(effect.start_time, "0.5") >>
    ELSE <<>>

\* The effects' filters, last effect first.
RECURSIVE effectsFiltersReversed(_)
effectsFiltersReversed(effects) ==
    IF effects = <<>> THEN <<>>
    ELSE effectsFiltersReversed(Tail(effects)) \o effectFilters(Head(effects))

RECURSIVE effectsFilters(_)
effectsFilters(effects) ==
    IF effects = <<>> THEN <<>>
    ELSE effectFilters(Head(effects)) \o effectsFilters(Tail(effects))

RECURSIVE captionsFilters(_, _, _)
captionsFilters(caps, videoHeight, style) ==
    IF caps = <<>> THEN <<>>
    ELSE << generateCaptionFilter(
              [ text |-> Head(caps).text, start_time |-> Head(caps).start_time,
                end_time |-> Head(caps).end_time,
                is_highlighted |-> Head(caps).is_highlighted,
                style |-> Head(caps).style, videoHeight |-> videoHeight,
                accent |-> style.colors.accent ]) >>
           \o captionsFilters(Tail(caps), videoHeight, style)

\* The options default to true when they are not given.
optionOr(option, default) == IF option = None THEN default ELSE option[1]

\* generateCompleteEditingPipeline(inputPath, outputPath, captions, effects,
\* style, options): the commands, each the sequence of its parts.
generateCompleteEditingPipeline(a) ==
    LET removeNoise == optionOr(a.options.removeNoise, TRUE)
        normalize == optionOr(a.options.normalizeAudio, TRUE)
        colorGrade == optionOr(a.options.colorGrade, TRUE)
        currentInput == PathString(a.inputPath)
        audioPath == replaceExtension(a.inputPath, "_audio.wav")
        denoisedPath == replaceExtension(a.inputPath, "_denoised.wav")
        normalizedPath == replaceExtension(a.inputPath, "_normalized.wav")
        afterNoise == IF removeNoise THEN denoisedPath ELSE ""
        stepOutput == IF (removeNoise \/ normalize) /\ normalize
                      THEN normalizedPath
                      ELSE IF removeNoise \/ normalize THEN afterNoise ELSE ""
        audioCommands ==
            IF removeNoise \/ normalize
            THEN << extractAudio(currentInput, audioPath) >>
                   \o (IF removeNoise THEN << reduceNoise(audioPath, denoisedPath) >>
                       ELSE <<>>)
                   \o (IF normalize
                       THEN << normalizeAudio(IF afterNoise # "" THEN afterNoise
                                              ELSE audioPath, normalizedPath) >>
                       ELSE <<>>)
            ELSE <<>>
        filters ==
            (IF colorGrade THEN << applyColorGrade("0.06", "1.1", "1.2") >> ELSE <<>>)
              \o effectsFilters(a.effects)
              \o captionsFilters(a.captions, 1920, a.style)
        filterComplex == join(filters)
        videoWithEffects == replaceExtension(a.inputPath, "_effects.mp4")
        encode ==
            IF stepOutput # ""
            THEN << "ffmpeg -i \"", currentInput, "\" -i \"", stepOutput,
                    "\" -filter_complex \"" >>
                   \o filterComplex
                   \o << "\" -map 0:v -map 1:a -c:v libx264 -preset medium -crf 23 -c:a aac -b:a 192k \"",
                         videoWithEffects, "\"" >>
            ELSE << "ffmpeg -i \"", currentInput, "\" -vf \"" >>
                   \o filterComplex
                   \o << "\" -c:v libx264 -preset medium -crf 23 -c:a copy \"",
                         videoWithEffects, "\"" >>
    IN  audioCommands \o << encode >>
          \o << << "mv \"", videoWithEffects, "\" \"", PathString(a.outputPath), "\"" >> >>

\* Input paths: with an extension, without one, and the empty string.
PipelinePaths == { [stem |-> "in", ext |-> ".mp4"], [stem |-> "in", ext |-> ""],
                   [stem |-> "", ext |-> ""] }

PipelineCaptions ==
    [ text : {<<"a">>, <<"'", ",">>}, start_time : {0}, end_time : {3},
      is_highlighted : {FALSE}, style : {NoStyle} ]

\* Effects: a zoom without and with a scale, a transition, and a type the
\* pipeline has no filter for.
PipelineEffects ==
    [ effect_type : {"zoom"}, start_time : {1}, end_time : {4},
      scale : {None, Some("1.5")}, centerX : {None}, centerY : {None} ]
      \cup [ effect_type : {"transition", "blur"}, start_time : {1}, end_time : {4},
             scale : {None}, centerX : {None}, centerY : {None} ]

PipelineOptions ==
    [ removeNoise : {None, Some(TRUE), Some(FALSE)},
      normalizeAudio : {None, Some(TRUE), Some(FALSE)},
      colorGrade : {None, Some(TRUE), Some(FALSE)} ]

PipelineInputs ==
    [ inputPath : PipelinePaths, outputPath : {[stem |-> "out", ext |-> ".mp4"]},
      captions : SeqsUpTo(PipelineCaptions, MaxPipelineItems),
      effects : SeqsUpTo(PipelineEffects, MaxPipelineItems),
      style : {[colors |-> [accent |-> "#FFE66D"]]},
      options : PipelineOptions ]

GenerateCompleteEditingPipeline(a) ==
    /\ pipelineArgs' = a
    /\ pipelineCommands' = generateCompleteEditingPipeline(a)
    /\ UNCHANGED <<captionArgs, captionFilter, thumbnailArgs, thumbnailCommand,
                   uploadVars, statusVars, queueVars, wordVars, processorVars>>

NoArgs == [none |-> TRUE]

InitFfmpegWith(captionInputs, thumbnailInputs) ==
    /\ captionArgs \in captionInputs
    /\ thumbnailArgs \in thumbnailInputs
    /\ captionFilter = <<>>
    /\ thumbnailCommand = <<>>
    /\ pipelineArgs = NoArgs
    /\ pipelineCommands = <<>>

InitFfmpeg == InitFfmpegWith({NoArgs}, {NoArgs})

InitUpload == uploadReq = NoRequest /\ uploadResp = NoResponse /\ form = InitForm
NoPoll == [videoId |-> "", none |-> TRUE]

InitStatus ==
    /\ statusReq = NoPoll /\ statusResp = NoResponse
    /\ prevStatusReq = NoPoll /\ prevStatusResp = NoResponse
    /\ view = InitView

Init ==
    /\ InitUpload /\ InitStatus /\ InitQueue /\ InitWords /\ InitFfmpeg
    /\ InitProcessor

NextUpload ==
    \/ /\ uploadReq = NoRequest
       /\ \E req \in UploadRequests, suffix \in VideoIdSuffixes : POST(req, suffix)
    \/ UploadSent

SpecUpload == Init /\ [][NextUpload]_vars

NextForm ==
    \/ \E file \in FormFiles : UploadVideo(file)
    \/ ProgressTick
    \/ \E status \in UploadStatuses : FetchResponds(status)
    \/ BodyRead
    \/ FetchFails

SpecForm == Init /\ [][NextForm]_vars

NextStatus == \E videoId \in VideoIds, draw \in RandomDraws : GET(videoId, draw)

SpecStatus == Init /\ [][NextStatus]_vars

NextView ==
    \/ PollTimer
    \/ \E data \in ViewData : FetchResolves(data)
    \/ FetchRejects
    \/ OnCompleteTimer

SpecView == Init /\ [][NextView]_vars

\* Callers filling and draining two lanes, with and without priority.
PriorityLanes == {"UPLOAD", "PROCESS"}

NextPriority ==
    \/ \E q \in PriorityLanes, p \in Priorities : Enqueue(q, p, 0)
    \/ \E q \in PriorityLanes, p \in Priorities : EnqueuePriority(q, p, 0)
    \/ \E q \in PriorityLanes : Dequeue(q)
    \/ \E q \in PriorityLanes : DequeuePriority(q)

SpecPriority == Init /\ [][NextPriority]_vars

\* Callers using enqueue and dequeue alone, on a working lane and on a
\* result lane, with jobs of any priority.
FifoLanes == {"UPLOAD", "COMPLETED"}

NextFifo ==
    \/ \E q \in FifoLanes, p \in Priorities : Enqueue(q, p, 0)
    \/ \E q \in FifoLanes : Dequeue(q)

SpecFifo == Init /\ [][NextFifo]_vars

\* Two processQueue loops, on the same lane or not, with callers enqueueing
\* on these lanes.
LoopLanes == {"UPLOAD", "PROCESS"}

NextLoops ==
    \/ \E w \in Workers, q \in LoopLanes, n \in {1, 2} : StartProcessQueue(w, q, n)
    \/ /\ Len(submitted) < MaxRetryJobs
       /\ \E q \in LoopLanes : Enqueue(q, 1, 0)
    \/ \E w \in Workers : LoopDequeue(w)
    \/ \E w \in Workers : ProcessorReturns(w)
    \/ \E w \in Workers : ProcessorThrows(w)

SpecLoops == Init /\ [][NextLoops]_vars

\* One processQueue loop on a lane that callers fill through enqueuePriority
\* only.
PriorityLoopLanes == {"PROCESS", "RENDER"}

NextPriorityLoop ==
    \/ \E q \in PriorityLoopLanes, n \in {1, 2} : StartProcessQueue("w1", q, n)
    \/ \E q \in PriorityLoopLanes, p \in Priorities : EnqueuePriority(q, p, 0)
    \/ LoopDequeue("w1")
    \/ ProcessorReturns("w1")
    \/ ProcessorThrows("w1")

SpecPriorityLoop == Init /\ [][NextPriorityLoop]_vars

\* queueVideoProcessing calls, and one processVideo call for a video that
\* was queued.
NextQueueVideo ==
    \/ \E c \in QueueCallIds, videoId \in QueuedVideoIds :
          QueueVideoProcessing(c, videoId)
    \/ \E c \in QueueCallIds : QueueVideoStatus(c)
    \/ \E videoId \in QueuedVideoIds :
          /\ \E c \in QueueCallIds :
                /\ queueCalls[c] # NotQueued
                /\ queueCalls[c].pc = "resolved"
                /\ queueCalls[c].videoId = videoId
          /\ ProcessVideo(1, videoId)
    \/ StepProgress(1)
    \/ StepStatus(1)
    \/ SaveAnalysis(1)
    \/ \E totalTime \in TotalTimes : CompletedProgress(1, totalTime)
    \/ CompletedStatus(1)
    \/ CompletedVideo(1)
    \/ CompletedEnqueue(1)
    \/ \E error \in ThrownErrors : StepRejects(1, error)
    \/ FailedStatus(1)
    \/ FailedVideo(1)
    \/ FailedEnqueue(1)

SpecQueueVideo == Init /\ [][NextQueueVideo]_vars

\* Callers using every operation of the queue on two of the lanes, and
\* writing job statuses.
FramePriorities == {1, 2}
FrameLanes == {"PROCESS", "RENDER"}

NextFrame ==
    \/ /\ Len(submitted) < MaxRetryJobs
       /\ \E q \in FrameLanes, p \in FramePriorities : Enqueue(q, p, 0)
    \/ /\ Len(submitted) < MaxRetryJobs
       /\ \E q \in FrameLanes, p \in FramePriorities : EnqueuePriority(q, p, 0)
    \/ \E q \in FrameLanes : Dequeue(q)
    \/ \E q \in FrameLanes : ClearQueue(q)
    \/ \E q \in FrameLanes : PeekQueue(q)
    \/ \E q \in FrameLanes : GetQueueSize(q)
    \/ GetQueueStats
    \/ GetQueueStatsRead
    \/ SetJobStatus(1, [progress |-> 10])

SpecFrame == Init /\ [][NextFrame]_vars

\* Callers writing and reading job statuses, in any order.
NextJobStatus ==
    \/ \E id \in StatusIds, status \in StatusRecords : SetJobStatus(id, status)
    \/ \E id \in StatusIds : GetJobStatus(id)

SpecJobStatus == Init /\ [][NextJobStatus]_vars

\* One processQueue loop on any lane, with callers enqueueing, before and
\* after it starts, jobs whose data has no retryCount (0) or already has
\* one (1).
NextRetry ==
    \/ \E q \in QueueNames, n \in 1..MaxRetriesTried : StartProcessQueue("w1", q, n)
    \/ /\ Len(submitted) < MaxRetryJobs
       /\ \E q \in QueueNames, rc \in {0, 1} : Enqueue(q, 1, rc)
    \/ LoopDequeue("w1")
    \/ ProcessorReturns("w1")
    \/ ProcessorThrows("w1")

SpecRetry == Init /\ [][NextRetry]_vars

\* One processQueue loop on a working lane, with callers enqueueing on the
\* working lanes, under the scheduling the loop has: while (true) polls the
\* lane again after every job and every pollInterval sleep, and every
\* processor call ends, by returning or by throwing.
SourceLanes == {"UPLOAD", "PROCESS", "RENDER"}

NextDrain ==
    \/ \E q \in SourceLanes, n \in 1..MaxRetriesTried : StartProcessQueue("w1", q, n)
    \/ /\ Len(submitted) < MaxRetryJobs
       /\ \E q \in SourceLanes : Enqueue(q, 1, 0)
    \/ LoopDequeue("w1")
    \/ ProcessorReturns("w1")
    \/ ProcessorThrows("w1")

SpecDrain ==
    /\ Init /\ [][NextDrain]_vars
    /\ WF_vars(LoopDequeue("w1"))
    /\ WF_vars(ProcessorReturns("w1") \/ ProcessorThrows("w1"))

\* processVideo calls in progress together.
NextProcessVideo ==
    \/ \E r \in RunIds, videoId \in ProcessorVideoIds : ProcessVideo(r, videoId)
    \/ \E r \in RunIds : StepProgress(r)
    \/ \E r \in RunIds : StepStatus(r)
    \/ \E r \in RunIds : SaveAnalysis(r)
    \/ \E r \in RunIds, totalTime \in TotalTimes : CompletedProgress(r, totalTime)
    \/ \E r \in RunIds : CompletedStatus(r)
    \/ \E r \in RunIds : CompletedVideo(r)
    \/ \E r \in RunIds : CompletedEnqueue(r)
    \/ \E r \in RunIds, error \in ThrownErrors : StepRejects(r, error)
    \/ \E r \in RunIds : FailedStatus(r)
    \/ \E r \in RunIds : FailedVideo(r)
    \/ \E r \in RunIds : FailedEnqueue(r)

SpecProcessVideo == Init /\ [][NextProcessVideo]_vars

\* The wrappers called with and without a client, whatever the API does.
NextWrappers ==
    \/ \E configured \in BOOLEAN, api \in TranscriptionApi :
          TranscribeAudio(configured, api)
    \/ \E configured \in BOOLEAN, api \in CompletionApi :
          AnalyzeVirality(configured, api)

SpecWrappers == Init /\ [][NextWrappers]_vars

\* generateCompleteEditingPipeline on every combination of options, caption
\* lists and effect lists of up to MaxPipelineItems elements.
NextPipeline ==
    /\ pipelineCommands = <<>>
    /\ \E a \in PipelineInputs : GenerateCompleteEditingPipeline(a)

SpecPipeline == Init /\ [][NextPipeline]_vars

\* generateCaptions on every transcription of up to MaxCaptionWords words.
InitCaptions ==
    /\ InitUpload /\ InitStatus /\ InitQueue /\ InitFfmpeg /\ InitProcessor
    /\ InitWordsWith({ WordsFrom(sh, 0) : sh \in SeqsUpTo(CaptionShapes, MaxCaptionWords) },
                     KeywordLists)

NextCaptions == GenerateCaptions

SpecCaptions == InitCaptions /\ [][NextCaptions]_vars

\* detectScenes and detectSilences on every transcription of up to
\* MaxGapWords words.
InitGaps ==
    /\ InitUpload /\ InitStatus /\ InitQueue /\ InitFfmpeg /\ InitProcessor
    /\ InitWordsWith({ WordsFrom(sh, 0) : sh \in SeqsUpTo(GapShapes, MaxGapWords) }, {{}})

NextGaps == DetectScenes \/ DetectSilences

SpecGaps == InitGaps /\ [][NextGaps]_vars

\* generateCaptionFilter on every caption text of up to MaxTextLen characters.
InitCaptionFilter ==
    /\ InitUpload /\ InitStatus /\ InitQueue /\ InitWords /\ InitProcessor
    /\ InitFfmpegWith(CaptionInputs, {NoArgs})

NextCaptionFilter == GenerateCaptionFilter

SpecCaptionFilter == InitCaptionFilter /\ [][NextCaptionFilter]_vars

\* generateViralThumbnail on every title of up to MaxTextLen characters.
InitThumbnail ==
    /\ InitUpload /\ InitStatus /\ InitQueue /\ InitWords /\ InitProcessor
    /\ InitFfmpegWith({NoArgs}, ThumbnailInputs)

NextThumbnail == GenerateViralThumbnail

SpecThumbnail == InitThumbnail /\ [][NextThumbnail]_vars

(***************************************************************************)
(* Properties of the upload handler                                        *)
(***************************************************************************)

UploadHandled == uploadReq # NoRequest
UploadHasFile == UploadHandled /\ uploadReq.bodyOk /\ uploadReq.video.kind = "file"
UploadIsSuccess == "success" \in DOMAIN uploadResp.body
UploadIsError(status) ==
    /\ uploadResp.status = status
    /\ DOMAIN uploadResp.body = {"error"}
    /\ uploadResp.body.error # ""

\* C1: a request carrying a file larger than 500*1024*1024 bytes, or of a
\* MIME type other than video/mp4, video/quicktime, video/x-msvideo, never
\* gets the success envelope and is answered with HTTP 400; a file of exactly
\* 500*1024*1024 bytes is not rejected for its size, one of a byte more is.
C1_UploadRejects ==
    UploadHasFile =>
        LET f == uploadReq.video
            allowed == f.type \in {"video/mp4", "video/quicktime", "video/x-msvideo"}
        IN  /\ (f.size > 524288000 \/ ~allowed) =>
                  ~UploadIsSuccess /\ UploadIsError(400)
            /\ (f.size = 524288000 /\ allowed) => uploadResp.status # 400
            /\ f.size = 524288001 =>
                  /\ UploadIsError(400)
                  /\ uploadResp.body.error = "Arquivo muito grande. Maximo: 500MB"

\* C1 witness: a file one byte over the limit, of an allowed type, was refused.
C1_Witness ==
    /\ UploadHasFile
    /\ uploadReq.video.size = 524288001
    /\ uploadReq.video.type = "video/mp4"
    /\ uploadResp.status = 400

\* C2 as stated: every request (whatever its file and its style, pace and
\* colors fields) ends with the success envelope holding the video record or
\* with an HTTP 400 carrying an error message.
C2_SuccessOr400 ==
    (UploadHandled /\ uploadReq.bodyOk) =>
        \/ /\ UploadIsSuccess
           /\ uploadResp.status = 200
           /\ "video" \in DOMAIN uploadResp.body
        \/ UploadIsError(400)

\* C2 amended: every request ends in exactly one of three outcomes: the
\* success envelope holding the video record; an HTTP 400 with an error
\* message (no file, a file over 500 MB, a MIME type outside the allow-list);
\* or an HTTP 500 with an error message, when the form body cannot be read or
\* when the file is valid and the colors field is a non-empty string that is
\* not JSON.
C2_SuccessOr400Or500 ==
    UploadHandled =>
        LET r == uploadReq
            noFile == r.video.kind = "absent" \/ (r.video.kind = "text" /\ r.video.value = "")
            badFile == r.video.kind = "text" \/ r.video.size > 524288000
                          \/ r.video.type \notin {"video/mp4", "video/quicktime", "video/x-msvideo"}
            badColors == r.colors \notin {NULL, ""} /\ JSONParseThrows(r.colors)
            invalid == noFile \/ badFile
        IN  /\ uploadResp.status \in {200, 400, 500}
            /\ uploadResp.status = 200 <=>
                  r.bodyOk /\ ~invalid /\ ~badColors
            /\ uploadResp.status = 400 <=> r.bodyOk /\ invalid
            /\ uploadResp.status = 200 =>
                  /\ UploadIsSuccess
                  /\ uploadResp.body.success = TRUE
                  /\ uploadResp.body.video.status = "processing"
                  /\ ~("error" \in DOMAIN uploadResp.body)
            /\ uploadResp.status # 200 => UploadIsError(uploadResp.status)

\* C2 witness: a valid file with colors that are not JSON was answered 500.
C2_Witness ==
    /\ UploadHasFile
    /\ uploadReq.video.size <= 524288000
    /\ uploadReq.video.type = "video/quicktime"
    /\ uploadReq.colors = "red"
    /\ uploadResp.status = 500

\* C30: once an uploadVideo call has settled (the upload succeeded, the
\* route answered with an error, or the request was rejected) isUploading
\* is false, uploadProgress is 0 and stays 0 until the next upload starts,
\* and no progress timer the call started is still set; while the request
\* is in flight uploadProgress is within 0..90.
C30_FormSettles ==
    /\ form.pc = "settled" =>
          /\ ~form.isUploading
          /\ form.uploadProgress = 0
          /\ ~form.timer
    /\ form.pc = "fetching" =>
          /\ form.uploadProgress >= 0
          /\ form.uploadProgress <= 90

(***************************************************************************)
(* Properties of the queue                                                 *)
(***************************************************************************)

Lane(queueName) == inMemoryQueues[QUEUES[queueName]]

\* C3: enqueuePriority puts the new job immediately before the first job of
\* the lane with a strictly lower priority (at the tail when there is none)
\* and keeps the jobs queued before in their order, so the new job comes
\* after every queued job of equal (or higher) priority ahead of that place.
C3_PriorityInsertion ==
    lastOp.op = "enqueuePriority" =>
        LET old == lastOp.before
            new == Lane(lastOp.queueName)
            job == lastOp.job
        IN  /\ Len(new) = Len(old) + 1
            /\ \E k \in 1..Len(new) :
                  /\ new[k] = job
                  /\ \A i \in 1..(k - 1) :
                        new[i] = old[i] /\ old[i].priority >= job.priority
                  /\ \A i \in k..Len(old) : new[i + 1] = old[i]
                  /\ k <= Len(old) => old[k].priority < job.priority

\* C3 witness: a job was inserted behind a queued job of its own priority and
\* in front of a job of lower priority.
C3_Witness ==
    /\ lastOp.op = "enqueuePriority"
    /\ \E k \in 2..Len(lastOp.before) :
          /\ Lane(lastOp.queueName)[k] = lastOp.job
          /\ lastOp.before[k - 1].priority = lastOp.job.priority
          /\ lastOp.before[k].priority < lastOp.job.priority

\* C14: after any sequence of enqueue, enqueuePriority, dequeue and
\* dequeuePriority calls on a lane, dequeuePriority removes and returns a job
\* whose priority is the maximum among the jobs in the lane, and returns
\* null only when the lane is empty.
C14_DequeuePriorityReturnsMax ==
    lastOp.op = "dequeuePriority" =>
        LET old == lastOp.before
            job == lastOp.job
        IN  /\ job = NoJob <=> old = <<>>
            /\ job # NoJob =>
                  /\ \A i \in 1..Len(old) : old[i].priority <= job.priority
                  /\ Len(Lane(lastOp.queueName)) = Len(old) - 1
                  /\ \A i \in 1..Len(Lane(lastOp.queueName)) :
                        Lane(lastOp.queueName)[i] # job

\* C16: dequeue returns the jobs of a lane in the order in which enqueue
\* added them: the job it returns is the one added earliest among the jobs
\* in the lane (ids number the jobs in the order of their enqueue), it is
\* removed and the rest keeps its order; on an empty lane dequeue returns
\* null and leaves every lane unchanged.  A dequeue leaves the other lanes
\* unchanged in both cases.
C16_FirstInFirstOut ==
    [][ lastOp'.op = "dequeue" =>
          LET q == QUEUES[lastOp'.queueName]
              lane == inMemoryQueues[q]
          IN  /\ \A k \in QueueKeys \ {q} : inMemoryQueues'[k] = inMemoryQueues[k]
              /\ lane = <<>> =>
                    lastOp'.job = NoJob /\ inMemoryQueues' = inMemoryQueues
              /\ lane # <<>> =>
                    /\ lastOp'.job # NoJob
                    /\ \E i \in 1..Len(lane) : lane[i] = lastOp'.job
                    /\ \A i \in 1..Len(lane) : lastOp'.job.id <= lane[i].id
                    /\ Len(inMemoryQueues'[q]) = Len(lane) - 1
                    /\ \A i \in 1..Len(inMemoryQueues'[q]) :
                          inMemoryQueues'[q][i] = lane[i + 1]
      ]_vars

\* C16 witness: three jobs were enqueued on UPLOAD with rising priorities
\* and two dequeues have returned the first and then the second of them.
C16_Witness ==
    /\ Len(submitted) = 3
    /\ \A id \in 1..3 : submitted[id].queueName = "UPLOAD"
                          /\ submitted[id].job.priority = id
    /\ lastOp.op = "dequeue" /\ lastOp.queueName = "UPLOAD"
    /\ lastOp.job = submitted[2].job
    /\ lastOp.before = <<submitted[2].job, submitted[3].job>>
    /\ Lane("UPLOAD") = <<submitted[3].job>>

CountIn(queueName, id) ==
    Cardinality({ i \in 1..Len(Lane(queueName)) : Lane(queueName)[i].id = id })

InFlight(id) ==
    \E w \in Workers : loops[w].state = "processing" /\ loops[w].job.id = id

\* The job was enqueued on the lane the loop drains.
OnLoopLane(id) == submitted[id].queueName = loops["w1"].queueName

\* Every processor call for the job that has ended so far threw.
ThrewEveryTime(id) ==
    threw[id] = attempts[id] - (IF InFlight(id) THEN 1 ELSE 0)

\* The fate of job id in a loop on lane src with maxRetries n: handed to the
\* processor at most n times; back on src once with retryCount one higher
\* after each of the first n - 1 failures; on FAILED once, and off src, after
\* the n-th.
RetriedUpTo(id, src, n) ==
    /\ attempts[id] <= n
    /\ InFlight(id) => CountIn(src, id) = 0 /\ CountIn("FAILED", id) = 0
    /\ (~InFlight(id) /\ threw[id] < n) =>
          /\ CountIn(src, id) = 1
          /\ src # "FAILED" => CountIn("FAILED", id) = 0
          /\ \A i \in 1..Len(Lane(src)) :
                Lane(src)[i].id = id =>
                  Lane(src)[i].data.retryCount =
                      submitted[id].job.data.retryCount + threw[id]
    /\ (~InFlight(id) /\ threw[id] >= n) =>
          /\ attempts[id] = n
          /\ CountIn("FAILED", id) = 1
          /\ \A i \in 1..Len(Lane(src)) : Lane(src)[i].id # id

\* C4 as stated: with maxRetries = N >= 1, a job whose processor throws on
\* every attempt is handed to the processor exactly N times, re-enqueued on
\* its lane with retryCount + 1 after each of the first N - 1 failures, and
\* put on FAILED once after the N-th, never to return to its lane.
C4_ExactlyNAttempts ==
    loops["w1"] # Stopped =>
        \A id \in 1..Len(submitted) :
            (OnLoopLane(id) /\ ThrewEveryTime(id)) =>
                RetriedUpTo(id, loops["w1"].queueName, loops["w1"].maxRetries)

\* C4 amended: the same, for a loop on a lane other than FAILED and a job
\* enqueued without a retryCount in its data.
C4_ExactlyNAttemptsOffFailed ==
    (loops["w1"] # Stopped /\ loops["w1"].queueName # "FAILED") =>
        \A id \in 1..Len(submitted) :
            (OnLoopLane(id) /\ ThrewEveryTime(id)
               /\ submitted[id].job.data.retryCount = 0) =>
                /\ RetriedUpTo(id, loops["w1"].queueName, loops["w1"].maxRetries)
                /\ CountIn("FAILED", id) > 0 =>
                      /\ CountIn(loops["w1"].queueName, id) = 0
                      /\ ~InFlight(id)
                      /\ attempts[id] = loops["w1"].maxRetries

\* C4 witness: with maxRetries = 3 a job enqueued on PROCESS without
\* retryCount has thrown three times and is on FAILED.
C4_Witness ==
    /\ loops["w1"] # Stopped
    /\ loops["w1"].queueName = "PROCESS"
    /\ loops["w1"].maxRetries = 3
    /\ \E id \in 1..Len(submitted) :
          /\ OnLoopLane(id)
          /\ submitted[id].job.data.retryCount = 0
          /\ threw[id] = 3
          /\ attempts[id] = 3
          /\ CountIn("FAILED", id) = 1

\* In how many places job id is: entries of the lane src, loops that hold
\* it at the processor, entries of COMPLETED and entries of FAILED.
InFlightCount(id) ==
    Cardinality({ w \in Workers : loops[w].state = "processing"
                                     /\ loops[w].job.id = id })

PlacesOf(id, src) ==
    CountIn(src, id) + InFlightCount(id) + CountIn("COMPLETED", id)
      + CountIn("FAILED", id)

\* C17: with unique job ids, while processQueue drains UPLOAD, PROCESS or
\* RENDER, each job that was enqueued on that lane is in exactly one place:
\* the lane, in flight at the processor, COMPLETED or FAILED.
C17_JobInOnePlace ==
    (loops["w1"] # Stopped /\ loops["w1"].queueName \in SourceLanes) =>
        \A id \in 1..Len(submitted) :
            OnLoopLane(id) => PlacesOf(id, loops["w1"].queueName) = 1

\* C17 witness: of two jobs enqueued on RENDER, the lane the loop drains,
\* the first has failed twice and is on FAILED while the second, after one
\* failure, is in flight at the processor.
C17_Witness ==
    /\ loops["w1"] # Stopped /\ loops["w1"].queueName = "RENDER"
    /\ Len(submitted) = 2
    /\ OnLoopLane(1) /\ OnLoopLane(2)
    /\ threw[1] = 2 /\ CountIn("FAILED", 1) = 1
    /\ threw[2] = 1 /\ InFlight(2)
    /\ PlacesOf(1, "RENDER") = 1 /\ PlacesOf(2, "RENDER") = 1

\* Job id was enqueued on the source lane a running loop drains.
Draining(id) ==
    /\ id <= Len(submitted)
    /\ loops["w1"] # Stopped
    /\ loops["w1"].queueName \in SourceLanes
    /\ OnLoopLane(id)

Finished(id) == CountIn("COMPLETED", id) + CountIn("FAILED", id) >= 1

\* C18: when every processor call ends and finitely many jobs are enqueued,
\* every job enqueued on the UPLOAD, PROCESS or RENDER lane that a
\* processQueue loop drains eventually reaches COMPLETED or FAILED, and a
\* loop that has handed a job to the processor, whether that call returns or
\* throws, comes back to polling its lane.
C18_EveryJobFinishes ==
    /\ \A id \in JobIds : Draining(id) ~> Finished(id)
    /\ (loops["w1"] # Stopped /\ loops["w1"].state = "processing")
          ~> (loops["w1"].state = "polling")

\* C18 witness: the loop drains UPLOAD with maxRetries 2; the first job
\* threw once and then returned, and is on COMPLETED; the second, taken
\* after the first one's exception, threw twice and is on FAILED.
C18_Witness ==
    /\ Draining(1) /\ Draining(2)
    /\ loops["w1"].queueName = "UPLOAD" /\ loops["w1"].maxRetries = 2
    /\ threw[1] = 1 /\ attempts[1] = 2 /\ CountIn("COMPLETED", 1) = 1
    /\ threw[2] = 2 /\ attempts[2] = 2 /\ CountIn("FAILED", 2) = 1
    /\ loops["w1"].state = "polling"

\* C19: setJobStatus replaces the whole stored record: whatever the order
\* in which the setJobStatus calls for an id took effect, getJobStatus
\* returns the record written last, with exactly its fields (no field of an
\* earlier record, no mixture of two), and null for an id never written.
C19_LastWriteWins ==
    [][ lastGet' # lastGet =>
          LET log == LogOf(lastGet'.jobId)
          IN  IF log = <<>> THEN lastGet'.result = NullStatus
              ELSE /\ lastGet'.result = log[Len(log)]
                   /\ DOMAIN lastGet'.result = DOMAIN log[Len(log)]
      ]_vars

\* C19 witness: for id 1 a record with four fields was written and then a
\* record with progress alone; getJobStatus(1) returned the latter, without
\* the other three fields, and id 2 was never written.
C19_Witness ==
    /\ LogOf(1) = << [progress |-> 100, currentStep |-> "Completed",
                      timeRemaining |-> 0, totalTime |-> 8],
                     [progress |-> 10] >>
    /\ LogOf(2) = <<>>
    /\ lastGet = [jobId |-> 1, result |-> [progress |-> 10]]

\* All loops are running, on one lane.
LoopsShareLane ==
    /\ \A w \in Workers : loops[w] # Stopped
    /\ \A w1, w2 \in Workers : loops[w1].queueName = loops[w2].queueName

\* C20: when two processQueue loops drain the same lane, each queued entry
\* is handed to a processor by exactly one loop per attempt: no job is at
\* the processor of two loops at once, every hand-over is accounted for by
\* one ended call (a throw or a COMPLETED entry) or by the one call in
\* progress, and no entry is skipped: a job not yet finished is in the lane
\* or at a processor.
C20_OneLoopPerAttempt ==
    LoopsShareLane =>
        \A id \in 1..Len(submitted) :
            submitted[id].queueName = loops["w1"].queueName =>
                /\ InFlightCount(id) <= 1
                /\ attempts[id] =
                      threw[id] + CountIn("COMPLETED", id) + InFlightCount(id)
                /\ PlacesOf(id, loops["w1"].queueName) = 1

\* C20 witness: both loops drain PROCESS and each is at its processor with
\* a different job; job 1 is on its second attempt.
C20_Witness ==
    /\ LoopsShareLane
    /\ loops["w1"].queueName = "PROCESS"
    /\ loops["w1"].state = "processing" /\ loops["w2"].state = "processing"
    /\ loops["w1"].job.id = 2 /\ loops["w2"].job.id = 1
    /\ attempts[1] = 2 /\ threw[1] = 1 /\ attempts[2] = 1

\* C21: while processQueue drains a lane filled only through
\* enqueuePriority, every job the loop hands to the processor, a retried
\* job included, has the highest priority of the jobs that were in the lane
\* when it was dequeued.
C21_ProcessedJobIsMax ==
    [][ \A w \in Workers :
          (loops[w] # Stopped /\ loops[w].state = "polling"
             /\ loops'[w].state = "processing") =>
              \A i \in 1..Len(Lane(loops[w].queueName)) :
                  loops'[w].job.priority >= Lane(loops[w].queueName)[i].priority
      ]_vars

\* The lanes a step changes.
ChangedLanes == { k \in QueueKeys : inMemoryQueues'[k] # inMemoryQueues[k] }

\* C26: enqueue, enqueuePriority, dequeue and clearQueue on one lane leave
\* the four other lanes and all job statuses as they were; clearQueue
\* leaves its lane empty; peekQueue, getQueueSize and getQueueStats leave
\* every lane as it was, and getQueueSize is the number of jobs peekQueue
\* returns.
C26_OtherLanesUntouched ==
    [][ /\ ChangedLanes # {} =>
              /\ lastOp'.op \in {"enqueue", "enqueuePriority", "dequeue", "clearQueue"}
              /\ ChangedLanes = {QUEUES[lastOp'.queueName]}
              /\ jobStatuses' = jobStatuses
        /\ (lastOp' # lastOp /\ lastOp'.op = "clearQueue") =>
              inMemoryQueues'[QUEUES[lastOp'.queueName]] = <<>>
        /\ (lastOp' # lastOp /\ lastOp'.op \in {"peekQueue", "getQueueSize"}) =>
              /\ ChangedLanes = {}
              /\ jobStatuses' = jobStatuses
        /\ (lastOp' # lastOp /\ lastOp'.op = "getQueueSize") =>
              lastOp'.result = Len(peekQueue(inMemoryQueues', lastOp'.queueName))
        /\ statsCall' # statsCall =>
              /\ ChangedLanes = {}
              /\ jobStatuses' = jobStatuses
      ]_vars

\* C26 witness: a status is stored, PROCESS and RENDER hold a job each, the
\* last operation cleared PROCESS, which held a job, and RENDER still holds
\* its job; a getQueueStats call has returned.
C26_Witness ==
    /\ jobStatuses # NoStatuses
    /\ lastOp # NoOp
    /\ lastOp.op = "clearQueue" /\ lastOp.queueName = "PROCESS"
    /\ Len(lastOp.before) = 1
    /\ Lane("PROCESS") = <<>>
    /\ Len(Lane("RENDER")) = 1
    /\ statsCall.pc = "returned"
    /\ statsCall.stats.process = 1 /\ statsCall.stats.render = 1

(***************************************************************************)
(* Properties of the transcript post-processing                            *)
(***************************************************************************)

\* The words of a chunk of one to five words, joined by single spaces.
ChunkText(ws) ==
    ws[1].word
      \o (IF Len(ws) >= 2 THEN " " \o ws[2].word ELSE "")
      \o (IF Len(ws) >= 3 THEN " " \o ws[3].word ELSE "")
      \o (IF Len(ws) >= 4 THEN " " \o ws[4].word ELSE "")
      \o (IF Len(ws) >= 5 THEN " " \o ws[5].word ELSE "")

\* C5: for n words generateCaptions returns ceil(n/5) captions in order;
\* caption k (from 0) is built from exactly the words at positions
\* 5k .. min(5k+4, n-1) in their order, so it has one to five words, starts
\* with the start of its first word and ends with the end of its last.
C5_CaptionChunks ==
    "captions" \in computed =>
        LET n == Len(words)
        IN  /\ Len(captions) = (n + 4) \div 5
            /\ \A k \in 0..(Len(captions) - 1) :
                  LET first == 5 * k + 1
                      last == Min(5 * k + 5, n)
                      c == captions[k + 1]
                  IN  /\ first <= last /\ last - first + 1 \in 1..5
                      /\ c.text = ChunkText(SubSeq(words, first, last))
                      /\ c.start_time = words[first].start
                      /\ c.end_time = words[last].end

\* C5 witness: eleven words gave three captions, the last of one word.
C5_Witness ==
    /\ "captions" \in computed
    /\ Len(words) = 11
    /\ Len(captions) = 3
    /\ captions[3].text = words[11].word
    /\ captions[2].start_time = words[6].start

\* The pairs (i-1, i) of consecutive words, named by i, with a gap over a
\* threshold given in seconds.
PairsOver(seconds) ==
    { i \in 2..Len(words) :
        words[i].start - words[i - 1].end > seconds * TicksPerSecond }

\* The k-th pair of a set of pairs, in word order.
KthPair(pairs, k) ==
    CHOOSE i \in pairs : Cardinality({ j \in pairs : j <= i }) = k

\* C6: detectSilences emits an entry for the pair (words[i-1], words[i]) if
\* and only if words[i].start - words[i-1].end > 1.0, and detectScenes if and
\* only if that gap is > 2.0; a gap equal to the threshold is not flagged, and
\* the entries come in word order, with no others.
C6_GapDetection ==
    /\ "silences" \in computed =>
          /\ Len(silences) = Cardinality(PairsOver(1))
          /\ \A k \in 1..Len(silences) :
                LET i == KthPair(PairsOver(1), k)
                IN  /\ silences[k].start = words[i - 1].end
                    /\ silences[k].end = words[i].start
                    /\ silences[k].duration = words[i].start - words[i - 1].end
    /\ "scenes" \in computed =>
          /\ Len(scenes) = Cardinality(PairsOver(2))
          /\ \A k \in 1..Len(scenes) :
                LET i == KthPair(PairsOver(2), k)
                IN  scenes[k].timestamp = words[i - 1].end + words[i].start

\* C6 witness: of three gaps of 1.0 s, 1.25 s and 2.0 s, the last two are
\* silences and none is a scene change.
C6_Witness ==
    /\ computed = {"scenes", "silences"}
    /\ Len(words) = 4
    /\ words[2].start - words[1].end = 1 * TicksPerSecond
    /\ words[3].start - words[2].end = 1 * TicksPerSecond + 1
    /\ words[4].start - words[3].end = 2 * TicksPerSecond
    /\ Len(silences) = 2
    /\ silences[1].start = words[2].end
    /\ scenes = <<>>

\* C29: for every word sequence, each scene change of detectScenes belongs
\* to a silence of detectSilences for the same pair of consecutive words:
\* the k-th scene change is for the k-th pair with a gap over 2 s, that pair
\* has its silence in the list of silences, and the scene's timestamp is
\* the midpoint of that silence, strictly between its start and its end;
\* so there are never more scene changes than silences.  (Timestamps are in
\* half ticks.)
C29_ScenesAreSilences ==
    ({"scenes", "silences"} \subseteq computed) =>
        /\ Len(scenes) <= Len(silences)
        /\ \A k \in 1..Len(scenes) :
              LET i == KthPair(PairsOver(2), k)
                  j == Cardinality({ p \in PairsOver(1) : p <= i })
              IN  /\ i \in PairsOver(1)
                  /\ j \in 1..Len(silences)
                  /\ silences[j].start = words[i - 1].end
                  /\ silences[j].end = words[i].start
                  /\ scenes[k].timestamp = silences[j].start + silences[j].end
                  /\ 2 * silences[j].start < scenes[k].timestamp
                  /\ scenes[k].timestamp < 2 * silences[j].end

\* C29 witness: both detectors have run on words with two silences, of
\* which the second is long enough to be a scene change as well.
C29_Witness ==
    /\ {"scenes", "silences"} \subseteq computed
    /\ Len(silences) = 2 /\ Len(scenes) = 1
    /\ silences[1].duration <= 2 * TicksPerSecond
    /\ scenes[1].timestamp = silences[2].start + silences[2].end

(***************************************************************************)
(* Properties of the command builders                                      *)
(***************************************************************************)

\* The parts of a built string after the part `open` up to the next part
\* `close`: the text argument between its quotes.
Between(built, open, close) ==
    LET from == CHOOSE i \in 1..Len(built) : built[i] = open
        to == CHOOSE j \in (from + 1)..Len(built) :
                  /\ built[j] = close
                  /\ \A m \in (from + 1)..(j - 1) : built[m] # close
    IN  SubSeq(built, from + 1, to - 1)

\* Reading s from the left, a backslash escapes the character after it.
\* Every character of `special` is escaped:
RECURSIVE AllEscaped(_, _)
AllEscaped(s, special) ==
    IF s = <<>> THEN TRUE
    ELSE IF Head(s) = BACKSLASH
         THEN Len(s) >= 2 /\ AllEscaped(Tail(Tail(s)), special)
         ELSE Head(s) \notin special /\ AllEscaped(Tail(s), special)

\* only characters of `special` are escaped:
RECURSIVE OnlyEscaped(_, _)
OnlyEscaped(s, special) ==
    IF s = <<>> THEN TRUE
    ELSE IF Head(s) = BACKSLASH
         THEN Len(s) >= 2 /\ s[2] \in special /\ OnlyEscaped(Tail(Tail(s)), special)
         ELSE OnlyEscaped(Tail(s), special)

\* and s without its escaping backslashes:
RECURSIVE Unescaped(_)
Unescaped(s) ==
    IF s = <<>> THEN <<>>
    ELSE IF Head(s) = BACKSLASH /\ Len(s) >= 2
         THEN <<s[2]>> \o Unescaped(Tail(Tail(s)))
         ELSE <<Head(s)>> \o Unescaped(Tail(s))

CaptionTextArg ==
    Between(captionFilter,
            "drawtext=fontfile=/usr/share/fonts/truetype/dejavu/DejaVuSans-Bold.ttf:text='",
            "':fontcolor=")

\* C7: in the filter of generateCaptionFilter each backslash, single quote,
\* colon, '[' and ']' of the caption text is preceded by exactly one escaping
\* backslash, every other character is copied unchanged and in order, and
\* removing the escaping backslashes gives the text back.
C7_CaptionTextEscaped ==
    captionFilter # <<>> =>
        /\ AllEscaped(CaptionTextArg, {BACKSLASH, "'", ":", "[", "]"})
        /\ OnlyEscaped(CaptionTextArg, {BACKSLASH, "'", ":", "[", "]"})
        /\ Unescaped(CaptionTextArg) = captionArgs.text

\* C7 witness: the text \': was escaped to \\\'\: .
C7_Witness ==
    /\ captionFilter # <<>>
    /\ captionArgs.text = <<BACKSLASH, "'", ":">>
    /\ CaptionTextArg = <<BACKSLASH, BACKSLASH, BACKSLASH, "'", BACKSLASH, ":">>

ThumbnailTextArg ==
    Between(thumbnailCommand,
            ",eq=brightness=0.1:contrast=1.2:saturation=1.3,drawtext=fontfile=/usr/share/fonts/truetype/dejavu/DejaVuSans-Bold.ttf:text='",
            "':fontcolor=white:fontsize=80:box=1:boxcolor=black@0.7:boxborderw=20:x=(w-text_w)/2:y=h-150\" \"")

\* C8: in the command of generateViralThumbnail each quote, colon, '[' and
\* ']' of the title appears escaped by a preceding backslash inside the
\* drawtext text argument.
C8_TitleEscaped ==
    thumbnailCommand # <<>> =>
        /\ AllEscaped(ThumbnailTextArg, {"'", ":", "[", "]"})
        /\ Unescaped(ThumbnailTextArg) = thumbnailArgs.title

\* The video-encoding command of the pipeline (the one before the final
\* move) and the filter list between the quotes of its -vf or
\* -filter_complex argument.
EncodeCommand == pipelineCommands[Len(pipelineCommands) - 1]

EncodeFilterList ==
    IF \E i \in 1..Len(EncodeCommand) : EncodeCommand[i] = "\" -vf \""
    THEN Between(EncodeCommand, "\" -vf \"",
                 "\" -c:v libx264 -preset medium -crf 23 -c:a copy \"")
    ELSE Between(EncodeCommand, "\" -filter_complex \"",
                 "\" -map 0:v -map 1:a -c:v libx264 -preset medium -crf 23 -c:a aac -b:a 192k \"")

\* C15: for every combination of removeNoise, normalizeAudio and colorGrade,
\* every caption list and every effect list, the video-encoding command of
\* generateCompleteEditingPipeline carries a filter list that is not empty
\* and has no empty element: it neither starts nor ends with a separating
\* comma and has no two commas in a row.
C15_FilterListWellFormed ==
    pipelineCommands # <<>> =>
        LET list == EncodeFilterList
        IN  /\ list # <<>>
            /\ list[1] # ","
            /\ list[Len(list)] # ","
            /\ \A i \in 1..(Len(list) - 1) : ~(list[i] = "," /\ list[i + 1] = ",")

\* What a command of the pipeline does, read off its fixed parts.
CommandKind(cmd) ==
    CASE cmd[1] = "mv \"" -> "move"
      [] cmd[3] = "\" -vn -acodec pcm_s16le -ar 44100 -ac 2 \"" -> "extract"
      [] cmd[3] = "\" -af \"highpass=f=200,lowpass=f=3000,afftdn=nf=-25\" \"" -> "denoise"
      [] cmd[3] = "\" -af \"loudnorm=I=-16:TP=-1.5:LRA=11\" \"" -> "normalize"
      [] \E i \in 1..Len(cmd) :
            cmd[i] \in { "\" -c:v libx264 -preset medium -crf 23 -c:a copy \"",
                         "\" -map 0:v -map 1:a -c:v libx264 -preset medium -crf 23 -c:a aac -b:a 192k \"" }
           -> "encode"
      [] OTHER -> "other"

DrawtextHead ==
    "drawtext=fontfile=/usr/share/fonts/truetype/dejavu/DejaVuSans-Bold.ttf:text='"

\* The filters of a filter list in their order: each by its first part and,
\* for a zoom, its scale and, for a caption, the first part of its text.
RECURSIVE FilterItems(_, _)
FilterItems(parts, i) ==
    IF i > Len(parts) THEN <<>>
    ELSE IF parts[i] \in {"eq=brightness=", "fade=t=in:st="}
         THEN << <<parts[i], "">> >> \o FilterItems(parts, i + 1)
    ELSE IF parts[i] = "zoompan=z='if(between(t,"
         THEN << <<parts[i], parts[i + 5]>> >> \o FilterItems(parts, i + 1)
    ELSE IF parts[i] = DrawtextHead
         THEN << <<parts[i], parts[i + 1]>> >> \o FilterItems(parts, i + 1)
    ELSE FilterItems(parts, i + 1)

\* The filters the arguments ask for, in the order of the claim.
RECURSIVE EffectItems(_)
EffectItems(effects) ==
    IF effects = <<>> THEN <<>>
    ELSE (IF Head(effects).effect_type = "zoom"
          THEN << << "zoompan=z='if(between(t,",
                     IF Head(effects).scale = None THEN "1.2"
                     ELSE Head(effects).scale[1] >> >>
          ELSE IF Head(effects).effect_type = "transition"
          THEN << <<"fade=t=in:st=", "">> >>
          ELSE <<>>)
         \o EffectItems(Tail(effects))

RECURSIVE CaptionItems(_)
CaptionItems(caps) ==
    IF caps = <<>> THEN <<>>
    ELSE << <<DrawtextHead, Head(escapeCaptionText(Head(caps).text))>> >>
           \o CaptionItems(Tail(caps))

\* The pipeline built for the last arguments is as the claim describes it.
PipelineAsDescribed ==
    LET a == pipelineArgs
        removeNoise == IF a.options.removeNoise = None THEN TRUE
                       ELSE a.options.removeNoise[1]
        normalize == IF a.options.normalizeAudio = None THEN TRUE
                     ELSE a.options.normalizeAudio[1]
        colorGrade == IF a.options.colorGrade = None THEN TRUE
                      ELSE a.options.colorGrade[1]
        audio == removeNoise \/ normalize
        audioPath == replaceExtension(a.inputPath, "_audio.wav")
        denoisedPath == replaceExtension(a.inputPath, "_denoised.wav")
        normalizedPath == replaceExtension(a.inputPath, "_normalized.wav")
        kinds == [k \in 1..Len(pipelineCommands) |-> CommandKind(pipelineCommands[k])]
        move == pipelineCommands[Len(pipelineCommands)]
    IN  /\ kinds = (IF audio THEN <<"extract">> ELSE <<>>)
                     \o (IF removeNoise THEN <<"denoise">> ELSE <<>>)
                     \o (IF normalize THEN <<"normalize">> ELSE <<>>)
                     \o <<"encode", "move">>
        /\ audio => /\ pipelineCommands[1][2] = PathString(a.inputPath)
                    /\ pipelineCommands[1][4] = audioPath
        /\ removeNoise => /\ pipelineCommands[2][2] = audioPath
                          /\ pipelineCommands[2][4] = denoisedPath
        /\ normalize =>
              LET cmd == pipelineCommands[Len(pipelineCommands) - 2]
              IN  /\ cmd[2] = IF removeNoise THEN denoisedPath ELSE audioPath
                  /\ cmd[4] = normalizedPath
        /\ EncodeCommand[2] = PathString(a.inputPath)
        /\ (EncodeCommand[3] = "\" -i \"") <=> audio
        /\ audio => EncodeCommand[4] = IF normalize THEN normalizedPath
                                       ELSE denoisedPath
        /\ FilterItems(EncodeFilterList, 1) =
              (IF colorGrade THEN << <<"eq=brightness=", "">> >> ELSE <<>>)
                \o EffectItems(a.effects) \o CaptionItems(a.captions)
        /\ move[2] = EncodeCommand[Len(EncodeCommand) - 1]
        /\ move[4] = PathString(a.outputPath)

StatusPolled == statusReq.videoId # ""

StepLabels == { "Validating video", "Extracting audio", "Analyzing with AI",
                "Generating visual effects", "Rendering video",
                "Generating thumbnail", "Finalizing" }

\* C9: a poll with a non-empty video id returns the completed payload
\* (status 'completed', progress 100, timeRemaining 0, a video record with
\* the requested id) exactly when the drawn progress is 100; any other draw
\* returns a processing payload with progress in 1..99, one of the seven step
\* labels and a strictly positive timeRemaining.
C9_StatusPayload ==
    StatusPolled =>
        LET b == statusResp.body
            drawn == statusReq.draw.n + 1
        IN  /\ statusResp.status = 200
            /\ b.status = "completed" <=> drawn = 100
            /\ b.status = "completed" =>
                  /\ b.progress = 100
                  /\ b.timeRemaining = 0
                  /\ b.video.id = statusReq.videoId
                  /\ b.video.status = "completed"
            /\ b.status # "completed" =>
                  /\ b.status = "processing"
                  /\ b.progress = drawn
                  /\ b.progress \in 1..99
                  /\ b.currentStep \in StepLabels
                  /\ b.timeRemaining > 0
                  /\ ~("video" \in DOMAIN b)

\* C9 witness: a poll drew 100 and got the completed payload.
C9_Witness ==
    /\ StatusPolled
    /\ statusReq.draw.n = 99
    /\ statusResp.body.status = "completed"

\* C10: progress is not monotonic across polls and no poll depends on an
\* earlier one: in every state, whatever was reported before (a completed
\* payload included), each draw of the next poll for an id is possible and
\* yields the progress of that draw alone, so a lower progress can follow.
C10_PollsIndependent ==
    \A videoId \in VideoIds \ {""}, draw \in RandomDraws :
        ENABLED ( /\ GET(videoId, draw)
                  /\ statusResp'.body.progress = draw + 1
                  /\ (statusResp'.body.status = "completed") = (draw = 99) )

\* C10 witness: a 'processing' response with a lower progress right after a
\* 'completed' response for the same id.
C10_Witness ==
    /\ StatusPolled
    /\ prevStatusReq.videoId = statusReq.videoId
    /\ prevStatusResp.body.status = "completed"
    /\ statusResp.body.status = "processing"
    /\ statusResp.body.progress < prevStatusResp.body.progress

\* C27: for one mounted view, however the poll timer and the completions
\* of the requests in flight interleave, onComplete is called at most once
\* and no request is issued after the first response with status
\* 'completed' or 'error' has been handled.
C27_OnCompleteOnce ==
    /\ view.onCompleteCalls <= 1
    /\ ~view.issuedAfterFinal

\* The labels the status route and the simulated pipeline emit, in the
\* order of the pipeline.
EmittedLabels ==
    << "Validating video", "Extracting audio", "Analyzing with AI",
       "Generating visual effects", "Rendering video", "Generating thumbnail",
       "Uploading", "Finalizing", "Completed" >>

PositionOf(label) == CHOOSE i \in 1..Len(EmittedLabels) : EmittedLabels[i] = label

\* C28: every label the status route or the simulated pipeline emits is
\* resolved by the view's step map to a step of its own: the view never
\* shows step 0 for such a label, and a label later in the pipeline never
\* has a smaller step index than an earlier one.
C28_LabelsHaveTheirStep ==
    (\E i \in 1..Len(EmittedLabels) : EmittedLabels[i] = view.status.currentStep) =>
        /\ view.stepIndex # 0
        /\ \A i \in 1..PositionOf(view.status.currentStep) :
              getCurrentStepIndex(EmittedLabels[i]) <= view.stepIndex

(***************************************************************************)
(* Properties of the video processor                                       *)
(***************************************************************************)

Called(r) == runs[r] # NotCalled

\* No step of run r has failed.
NoStepFailed(r) == runs[r].error = NoError

\* How many setJobStatus calls run r has made when no step has failed.
WritesMade(r) ==
    CASE runs[r].pc \in {"timer", "progress"} -> runs[r].i - 1
      [] runs[r].pc \in {"afterLoop", "analysis", "completedProgress"} -> 8
      [] OTHER -> 9

StatusSequence ==
    << <<5, "Validating video">>, <<15, "Extracting audio">>,
       <<30, "Analyzing with AI">>, <<50, "Generating visual effects">>,
       <<70, "Rendering video">>, <<92, "Generating thumbnail">>,
       <<95, "Uploading">>, <<98, "Finalizing">>, <<100, "Completed">> >>

\* C11: in a processVideo run in which no step fails, the records written
\* through setJobStatus for its job are, in order, progress 5, 15, 30, 50,
\* 70, 92, 95, 98 with the labels 'Validating video' ... 'Finalizing' and
\* then 100 with 'Completed' and timeRemaining 0; the stored record is the
\* last one written, and progress strictly increases from write to write.
C11_StatusSequence ==
    \A r \in RunIds :
        (Called(r) /\ NoStepFailed(r)) =>
            LET log == LogOf(runs[r].jobId)
            IN  /\ Len(log) = WritesMade(r)
                /\ \A k \in 1..Len(log) :
                      /\ log[k].progress = StatusSequence[k][1]
                      /\ log[k].currentStep = StatusSequence[k][2]
                      /\ k = 9 => log[k].timeRemaining = 0
                /\ \A k \in 1..(Len(log) - 1) : log[k].progress < log[k + 1].progress
                /\ Len(log) > 0 =>
                      getJobStatus(jobStatuses, runs[r].jobId) = log[Len(log)]

\* C11 witness: a run has resolved, no step of it failed, and all nine
\* records were written for its job.
C11_Witness ==
    \E r \in RunIds :
        /\ Called(r) /\ NoStepFailed(r)
        /\ runs[r].pc = "resolved"
        /\ Len(LogOf(runs[r].jobId)) = 9
        /\ getJobStatus(jobStatuses, runs[r].jobId).progress = 100

\* C12: once a processing job has status 'completed' or 'failed', no step of
\* any run changes its status, progress or current step.
C12_TerminalJobsStay ==
    [][ \A jobId \in DOMAIN processingJobs :
           processingJobs[jobId].status \in {"completed", "failed"} =>
               /\ jobId \in DOMAIN processingJobs'
               /\ processingJobs'[jobId].status = processingJobs[jobId].status
               /\ processingJobs'[jobId].progress = processingJobs[jobId].progress
               /\ processingJobs'[jobId].currentStep = processingJobs[jobId].currentStep
      ]_vars

\* C12 witness: two runs were in progress together and both have ended, one
\* resolved and one rejected; the job of one is still 'completed' at 100 and
\* the job of the other still 'failed' at 0.
C12_Witness ==
    \E r1, r2 \in RunIds :
        /\ Called(r1) /\ Called(r2)
        /\ runs[r1].pc = "resolved" /\ runs[r2].pc = "rejected"
        /\ processingJobs[runs[r1].jobId].status = "completed"
        /\ processingJobs[runs[r1].jobId].progress = 100
        /\ processingJobs[runs[r1].jobId].currentStep = "Completed"
        /\ processingJobs[runs[r2].jobId].status = "failed"
        /\ processingJobs[runs[r2].jobId].progress = 0
        /\ processingJobs[runs[r2].jobId].currentStep = "Failed"

\* The job of run r has n entries in COMPLETED and m in FAILED.
Entries(r, n, m) ==
    /\ CountIn("COMPLETED", runs[r].jobId) = n
    /\ CountIn("FAILED", runs[r].jobId) = m

\* C22: a processVideo call ends in one of two ways.  It resolves, with
\* one entry for its job in COMPLETED and none in FAILED; or it rejects
\* with the error it caught, the job status being progress 0, step 'Failed'
\* and the error's message ('Unknown error' for a value that is no Error),
\* with one entry for its job in FAILED and none in COMPLETED.  A call that
\* has not ended has no entry in either lane.
C22_ResolvesOrRejects ==
    \A r \in RunIds :
        Called(r) =>
            CASE runs[r].pc = "resolved" ->
                    /\ runs[r].error = NoError /\ runs[r].rejection = NoError
                    /\ Entries(r, 1, 0)
              [] runs[r].pc = "rejected" ->
                    /\ runs[r].error \in ThrownErrors
                    /\ runs[r].rejection = runs[r].error
                    /\ getJobStatus(jobStatuses, runs[r].jobId) =
                          [ progress |-> 0, currentStep |-> "Failed",
                            error |-> IF runs[r].error.isError
                                      THEN runs[r].error.message
                                      ELSE "Unknown error",
                            timeRemaining |-> 0 ]
                    /\ Entries(r, 0, 1)
              [] OTHER -> Entries(r, 0, 0)

\* C22 witness: of two calls in progress together one has resolved and the
\* other has rejected with a value that is no Error; each job has its one
\* entry.
C22_Witness ==
    /\ Called(1) /\ Called(2)
    /\ runs[1].pc = "rejected" /\ runs[1].error = [isError |-> FALSE, message |-> ""]
    /\ runs[2].pc = "resolved"
    /\ Entries(1, 0, 1) /\ Entries(2, 1, 0)
    /\ getJobStatus(jobStatuses, runs[1].jobId).error = "Unknown error"

\* The stored record of a video has this status.
VideoHasStatus(videoId, status) ==
    /\ videoId \in DOMAIN videos
    /\ "status" \in DOMAIN videos[videoId]
    /\ videos[videoId].status = status

\* The processVideo call followed is for this video and is at this position.
RunAt(videoId, pcs) ==
    /\ Called(1) /\ runs[1].videoId = videoId /\ runs[1].pc \in pcs

\* C23: a queueVideoProcessing(videoId) call that has resolved appended one
\* job with id = videoId, type 'process' and priority 1 to the tail of
\* PROCESS, and the stored record of the video has status 'queued' until a
\* processVideo call for the video begins; once that call has resolved the
\* record has status 'completed' and its processed and thumbnail URLs, and
\* once it has rejected the record has status 'error'.
C23_QueuedThenProcessed ==
    \A c \in QueueCallIds :
        (queueCalls[c] # NotQueued /\ queueCalls[c].pc = "resolved") =>
            LET videoId == queueCalls[c].videoId
            IN  /\ queueCalls[c].after =
                      Append(queueCalls[c].before,
                             [ id |-> videoId, type |-> "process",
                               videoId |-> videoId, priority |-> 1,
                               data |-> [userId |-> "user", videoPath |-> "path"] ])
                /\ ~(Called(1) /\ runs[1].videoId = videoId) =>
                      VideoHasStatus(videoId, "queued")
                /\ RunAt(videoId, {"resolved"}) =>
                      /\ VideoHasStatus(videoId, "completed")
                      /\ {"processed_url", "thumbnail_url"} \subseteq
                            DOMAIN videos[videoId]
                /\ RunAt(videoId, {"rejected"}) =>
                      VideoHasStatus(videoId, "error")

\* C24: in a processVideo run in which no step fails, the timeRemaining
\* values written with the successive steps never increase from one write
\* to the next, are at least 5 at every step before 'Completed', and are 0
\* at the 'Completed' step only.
C24_TimeRemainingDecreases ==
    \A r \in RunIds :
        (Called(r) /\ NoStepFailed(r)) =>
            LET log == LogOf(runs[r].jobId)
            IN  /\ \A k \in 1..(Len(log) - 1) :
                      log[k + 1].timeRemaining <= log[k].timeRemaining
                /\ \A k \in 1..Len(log) :
                      /\ log[k].currentStep # "Completed" => log[k].timeRemaining >= 5
                      /\ log[k].timeRemaining = 0 <=> log[k].currentStep = "Completed"

(***************************************************************************)
(* Properties of the external-API wrappers                                 *)
(***************************************************************************)

\* C13: every failure of transcribeAudio is thrown as an Error whose message
\* starts with 'Transcription failed: ' and every failure of analyzeVirality
\* as one whose message starts with 'Virality analysis failed: ', whatever
\* the cause (client not configured, request error, empty or unparseable
\* response).
C13_FailuresPrefixed ==
    (apiCall # NoCall /\ apiResult.kind = "throws") =>
        /\ apiCall.fn = "transcribeAudio" =>
              Head(apiResult.message) = "Transcription failed: "
        /\ apiCall.fn = "analyzeVirality" =>
              Head(apiResult.message) = "Virality analysis failed: "

====
